---------------------------- MODULE Spec2Model ----------------------------
(***************************************************************************)
(* Model of src/utils/cancer_simulation.py: the tumour-growth simulator    *)
(* simulate, the two branching generators                                  *)
(* simulate_counterfactual_test_data and simulate_sequence_test, and the   *)
(* cohort generation get_cancer_sim_data._generate.                        *)
(*                                                                         *)
(* Numbers.  The source computes in float64; the model computes in fixed   *)
(* point, rounding down:                                                   *)
(*   volumes             in 1/100 cm^3                                     *)
(*   diameters           in 1/10 cm                                        *)
(*   probabilities, draws of rand(), noise, the growth factor              *)
(*                       in 1/1000                                         *)
(*   alpha, beta, beta_c in 1/1000,  rho in 1/100000                       *)
(*   chemo dosage        in 1/DoseScale (a power of two, so that halving   *)
(*                       is exact as it is in float64)                     *)
(* NaN is a value of its own, with float64's rules: it propagates through  *)
(* arithmetic and every comparison with it is false.                       *)
(***************************************************************************)
EXTENDS Integers, Sequences, FiniteSets, TLC

\* ------------------------------------------------------------------ bounds
\* Number of patients of a call (initial_stages.shape[0]).
NumPatients == 2
\* num_time_steps of a call.
NumTimeSteps == 5
\* projection_horizon of simulate_sequence_test.
ProjectionHorizon == 2
\* The most batches a call of get_standard_params is followed through.
MaxBatches == 3

\* --------------------------------------------------------------- constants
\* 1.0 in 1/1000.
MilliOne == 1000
\* float64 NaN and +inf.
NaN == -2000000000
Inf == 2000000000

IsNaN(x) == x = NaN

\* chemo_amt[0] = 5.0, radio_amt[0] = 2.0 (Gy).
chemo_amt == 5
radio_amt == 2
\* num_treatments of simulate_counterfactual_test_data.
num_treatments == 4
\* Extra noise elements drawn by simulate_sequence_test.
NoiseExtra == 20

\* 2^n
RECURSIVE Pow2(_)
Pow2(n) == IF n <= 0 THEN 1 ELSE 2 * Pow2(n - 1)

\* One unit of dosage is 1/DoseScale: every dosage the simulators can reach in
\* NumTimeSteps + ProjectionHorizon halvings is a whole number of units.
DoseScale == Pow2(NumTimeSteps + ProjectionHorizon)

\* -------------------------------------------------------- calc_volume etc.
\* calc_volume(diameter) = 4/3 pi (diameter/2)^3, diameter in 1/10 cm.
calc_volume(diameter) == (((diameter * diameter * diameter) \div 100) * 5236) \div 1000

\* Integer cube root by bisection: the largest d in lo..hi with d^3 <= x.
RECURSIVE ICbrt(_, _, _)
ICbrt(x, lo, hi) ==
  IF lo >= hi THEN lo
  ELSE LET mid == (lo + hi + 1) \div 2
       IN IF mid * mid * mid <= x THEN ICbrt(x, mid, hi) ELSE ICbrt(x, lo, mid - 1)

\* calc_diameter(volume) = ((volume / (4/3 pi)) ^ (1/3)) * 2.  A negative
\* float64 raised to 1/3 is NaN.
calc_diameter(volume) ==
  IF IsNaN(volume) \/ volume < 0 THEN NaN
  ELSE ICbrt((volume * 191) \div 10, 0, 1200)

tumour_death_threshold == calc_volume(130)
\* K = calc_volume(30)
CarryingCapacity == calc_volume(300)

\* exp(-volume * tumour_cell_density), tumour_cell_density = 5.8e8 per cm^3:
\* 1 at volume 0, 0.0 (underflow) from 1/100 cm^3 on, +inf (overflow) for a
\* negative volume, NaN for NaN.
RecoveryProbability(volume) ==
  IF IsNaN(volume) THEN NaN
  ELSE IF volume < 0 THEN Inf
  ELSE IF volume = 0 THEN MilliOne
  ELSE 0

\* float64 comparisons: false as soon as one side is NaN.
FLess(a, b) == ~IsNaN(a) /\ ~IsNaN(b) /\ a < b
FLeq(a, b) == ~IsNaN(a) /\ ~IsNaN(b) /\ a <= b
FGreater(a, b) == ~IsNaN(a) /\ ~IsNaN(b) /\ a > b
FGeq(a, b) == ~IsNaN(a) /\ ~IsNaN(b) /\ a >= b

\* np.clip(x, lo, hi); NaN stays NaN.
Clip(x, lo, hi) == IF IsNaN(x) THEN NaN ELSE IF x < lo THEN lo ELSE IF x > hi THEN hi ELSE x

\* floor(log2(n)) for n >= 1
RECURSIVE Log2Floor(_)
Log2Floor(n) == IF n <= 1 THEN 0 ELSE 1 + Log2Floor(n \div 2)

\* ln(n) in 1/1000 for a whole n >= 1: 693 per doubling, linear in between.
LnMilli(n) ==
  LET k == Log2Floor(n)
      p == Pow2(k)
      frac == IF k >= 10 THEN (n - p) \div (p \div 1024) ELSE ((n - p) * 1024) \div p
  IN 693 * k + (693 * frac) \div 1024

\* np.log(K / volume) in 1/1000, volume > 0.
LogRatio(K, volume) == LnMilli((K * 100) \div volume) - LnMilli(100)

\* 1 / (1 + exp(-z)), z in 1/100: the logistic curve through its values at
\* whole z, linear in between; never exactly 0 or 1 for the arguments the
\* policy can produce.
SigmoidKnots == <<500, 731, 881, 953, 982, 993, 998, 999>>
SigmoidPos(z) ==
  IF z >= 700 THEN 999
  ELSE LET k == z \div 100
           f == z % 100
       IN SigmoidKnots[k + 1] + ((SigmoidKnots[k + 2] - SigmoidKnots[k + 1]) * f) \div 100
Sigmoid(z) == IF IsNaN(z) THEN NaN ELSE IF z >= 0 THEN SigmoidPos(z) ELSE MilliOne - SigmoidPos(-z)

\* ------------------------------------------------------------ the dynamics
\* A variant without the decay.
ChemoDosageNoDecay(previous_chemo_dose, current_chemo_dose) ==
  previous_chemo_dose + current_chemo_dose
\* previous_chemo_dose * np.exp(-np.log(2) / drug_half_life) + current_chemo_dose
\* with drug_half_life = 1: exp(-ln 2) is 0.5 in float64.
ChemoDosage(previous_chemo_dose, current_chemo_dose) ==
  previous_chemo_dose \div 2 + current_chemo_dose

\* The bracket of the recurrence, in 1/1000:
\*   1 + rho*log_ratio - beta_c*chemo - (alpha*radio + beta*radio^2) + noise
GrowthFactor(log_ratio, p, chemo, radio, noise_t) ==
  MilliOne + (p.rho * log_ratio) \div 100000
           - (p.beta_c * chemo) \div DoseScale
           - (p.alpha * radio + p.beta * radio * radio)
           + noise_t

\* volume * (1 + rho * np.log(K / volume) - ... + noise_t), as simulate and the
\* factual and single-step counterfactual recurrences of the branching modes
\* compute it.  K / 0 is inf and 0 * inf is NaN; the log of a negative is NaN.
NextVolume(volume, p, chemo, radio, noise_t) ==
  IF IsNaN(volume) \/ volume <= 0 THEN NaN
  ELSE (volume * GrowthFactor(LogRatio(p.K, volume), p, chemo, radio, noise_t)) \div MilliOne

\* volume * (1 + rho * np.log(K / (volume + 1e-07) + 1e-07) - ... + noise_t),
\* the projection step of simulate_sequence_test: finite (and 0) at volume 0,
\* NaN for a negative volume.
NextVolumeProjected(volume, p, chemo, radio, noise_t) ==
  IF IsNaN(volume) \/ volume < 0 THEN NaN
  ELSE IF volume = 0 THEN 0
  ELSE (volume * GrowthFactor(LogRatio(p.K, volume), p, chemo, radio, noise_t)) \div MilliOne

\* np.array([calc_diameter(vol) for vol in cancer_volume_used]).mean() over
\* cancer_volume_used = row[max(t - window_size, 0) : t + 1]
RECURSIVE SumDiameters(_, _, _)
SumDiameters(row, lo, hi) ==
  IF lo > hi THEN 0
  ELSE LET d == calc_diameter(row[lo])
           rest == SumDiameters(row, lo + 1, hi)
       IN IF IsNaN(d) \/ IsNaN(rest) THEN NaN ELSE d + rest

Max(a, b) == IF a >= b THEN a ELSE b
Min(a, b) == IF a <= b THEN a ELSE b

WindowStart(t_, window_size) == Max(t_ - window_size, 0)

CancerMetricUsed(row, t_, window_size) ==
  LET lo == WindowStart(t_, window_size)
      s == SumDiameters(row, lo, t_)
  IN IF IsNaN(s) THEN NaN ELSE s \div (t_ - lo + 1)

\* A variant that leaves the slope out.
TreatmentProbabilityNoSlope(sigmoid_beta, sigmoid_intercept, metric) ==
  IF IsNaN(metric) THEN NaN ELSE Sigmoid(metric - sigmoid_intercept)

\* 1.0 / (1.0 + np.exp(-sigmoid_beta * (cancer_metric_used - sigmoid_intercept)))
TreatmentProbability(sigmoid_beta, sigmoid_intercept, metric) ==
  IF IsNaN(metric) THEN NaN
  ELSE Sigmoid((sigmoid_beta * (metric - sigmoid_intercept)) \div 100)

\* np.zeros(n), np.zeros((rows, n))
Zeros(n) == [k \in 0 .. n - 1 |-> 0]
Zeros2(rows, n) == [r \in 0 .. rows - 1 |-> Zeros(n)]

\* ------------------------------------------------------------------- state
VARIABLES
  fn,                  \* the function being executed: "idle", "simulate",
                       \* "counterfactual", "sequence", or "returned"
  pc,                  \* the position inside it
  simulation_params,   \* the simulation_params argument
  assigned_actions,    \* the assigned_actions argument of simulate
  treatment_options,   \* the treatment_options argument of simulate_sequence_test
  i, t,                \* the loop variables: patient and time step
  cancer_volume, chemo_dosage, radio_dosage,
  chemo_application_point, radio_application_point,
  chemo_probabilities, radio_probabilities,
  sequence_lengths,
  patient_types_all_trajectories, patient_ids_all_trajectories, patient_current_t,
  test_idx,
  noise_terms,         \* simulate: the noise of all patients
  noise,               \* the noise of patient i
  recovery_rvs, chemo_application_rvs, radio_application_rvs,
  factual_cancer_volume, factual_chemo_dosage, factual_radio_dosage,
  factual_chemo_application_point, factual_radio_application_point,
  factual_chemo_probabilities, factual_radio_probabilities,
  outputs,             \* the returned dictionary
  rng,                 \* the state of np.random's global generator
  gen_pc,              \* the position inside get_cancer_sim_data._generate
  gen_args,            \* seed, chemo_coeff, radio_coeff and window_size
  rng_at_call,         \* the generator's state at each call of get_cancer_sim_data
  pickle_map,          \* the pickle_map of the call that is running
  returned_maps,       \* the pickle_maps returned so far, in order
  params_pc,           \* the position inside get_standard_params
  patient_types,       \* get_standard_params: the type of every patient
  initial_volumes,     \* get_standard_params: the initial volume of every patient
  simulated_params,    \* get_standard_params: the accepted (alpha, rho) draws
  param_holder,        \* get_standard_params: the batch being looked at
  holder_i,            \* get_standard_params: the index into the batch
  num_batches,         \* the number of batches drawn by the call
  draws,               \* every (alpha, rho) drawn by the call, in draw order
  idx,                 \* get_standard_params: the shuffled patient indices
  output_params,       \* the dictionary get_standard_params returns
  projection_pc,       \* the position inside the loops of simulate_sequence_test
  num_time_steps,      \* simulate_sequence_test: the num_time_steps argument
  projection_horizon,  \* simulate_sequence_test: the projection_horizon argument
  decision_t,          \* the decision time t of the branch being projected
  projection_step,     \* projection_time, the loop variable of the projection
  noise_index,         \* the index of noise read last
  volume_index         \* the index of counterfactual_cancer_volume written last

callVars == <<simulation_params, assigned_actions, treatment_options>>
simArrays == <<cancer_volume, chemo_dosage, radio_dosage,
               chemo_application_point, radio_application_point,
               chemo_probabilities, radio_probabilities, sequence_lengths>>
rowVars == <<patient_types_all_trajectories, patient_ids_all_trajectories,
             patient_current_t, test_idx>>
drawVars == <<noise_terms, noise, recovery_rvs, chemo_application_rvs,
              radio_application_rvs>>
factualVars == <<factual_cancer_volume, factual_chemo_dosage, factual_radio_dosage,
                 factual_chemo_application_point, factual_radio_application_point,
                 factual_chemo_probabilities, factual_radio_probabilities>>
paramVars == <<params_pc, patient_types, initial_volumes, simulated_params, param_holder,
               holder_i, num_batches, draws, idx, output_params>>
projectionVars == <<projection_pc, num_time_steps, projection_horizon, decision_t,
                    projection_step, noise_index, volume_index>>
genVars == <<rng, gen_pc, gen_args, paramVars, projectionVars, rng_at_call, pickle_map,
             returned_maps>>
vars == <<fn, pc, i, t, callVars, simArrays, rowVars, drawVars, factualVars, outputs,
          genVars>>

Patients == 0 .. NumPatients - 1

\* ------------------------------------------------------------------ inputs
\* Patients as get_standard_params can return them (alpha > 0, rho > 0,
\* beta = alpha / 10, an initial diameter inside its stage's bounds):
\*   a 2 cm tumour with a strong radio response, and
\*   a 12.9 cm tumour, close to the death threshold, that grows 2.5% a step.
PatientProfiles ==
  { [initial_volume |-> 419, alpha |-> 540, rho |-> 7, beta_c |-> 28, patient_type |-> 1],
    [initial_volume |-> 114000, alpha |-> 40, rho |-> 1000, beta_c |-> 28, patient_type |-> 3] }

\* The policies a call is made with: chemo_coeff = radio_coeff of
\* get_confounding_params, and window_size.
Policies == { [coeff |-> 0, window_size |-> 15], [coeff |-> 10, window_size |-> 1] }

\* Draws of 0.01 * randn() and of rand().
NoiseVals == {-20, 20}
RecoveryVals == {0, 500}
ApplicationVals == {250, 750}

\* The arrays a draw can return are taken from small families: noise that
\* alternates between a value and its opposite, one recovery draw repeated,
\* and an application draw followed by the other one repeated.
AltArr(n, a, b) == [k \in 0 .. n - 1 |-> IF k % 2 = 0 THEN a ELSE b]
StepArr(n, a, b) == [k \in 0 .. n - 1 |-> IF k = 0 THEN a ELSE b]

NoiseArrs(n) == {AltArr(n, a, 0 - a) : a \in NoiseVals}
RecoveryArrs(n) == {AltArr(n, a, a) : a \in RecoveryVals}
ApplicationArrs(n) ==
  {StepArr(n, ab[1], ab[2]) : ab \in {x \in ApplicationVals \X ApplicationVals : x[1] # x[2]}}

\* The chemo and the radio application draws of a patient of a branching
\* generator: two different arrays of the family.
ApplicationPairs(n) ==
  {ab \in ApplicationArrs(n) \X ApplicationArrs(n) : ab[1] # ab[2]}

\* The least (bit 0) or the greatest (bit 1) member of a set of numbers.
Pick(S, bit) ==
  IF bit = 0 THEN CHOOSE x \in S : \A y \in S : x <= y
  ELSE CHOOSE x \in S : \A y \in S : x >= y

\* The two-dimensional draws of simulate, one row a patient: the rows are one
\* array of the family, taken with a factor of `signs' that changes from one
\* patient to the next when `signs' has two members.
Rows(signs, arrs) ==
  { [j \in Patients |->
      [k \in DOMAIN arr |-> IF j % 2 = 0 THEN arr[k] ELSE arr[k] * Pick(signs, 0)]] :
    arr \in arrs }

\* get_confounding_params, lines 86-99: the sigmoid intercepts are d_max / 2
\* and the slopes chemo_coeff / d_max and radio_coeff / d_max for every
\* patient (slopes in 1/1000 per cm); get_standard_params, lines 227 and 255:
\* beta = alpha / 10 and K = calc_volume(30).
d_max == calc_diameter(tumour_death_threshold)
SigmoidIntercept == d_max \div 2
SigmoidBeta(coeff) == (coeff * 10000) \div d_max

ParamsOf(profile, chemo_coeff, radio_coeff, window_size) ==
  [ initial_volumes |-> [j \in Patients |-> profile[j].initial_volume],
    alpha |-> [j \in Patients |-> profile[j].alpha],
    rho |-> [j \in Patients |-> profile[j].rho],
    beta |-> [j \in Patients |-> profile[j].alpha \div 10],
    beta_c |-> [j \in Patients |-> profile[j].beta_c],
    K |-> [j \in Patients |-> CarryingCapacity],
    patient_types |-> [j \in Patients |-> profile[j].patient_type],
    window_size |-> window_size,
    chemo_sigmoid_intercepts |-> [j \in Patients |-> SigmoidIntercept],
    radio_sigmoid_intercepts |-> [j \in Patients |-> SigmoidIntercept],
    chemo_sigmoid_betas |-> [j \in Patients |-> SigmoidBeta(chemo_coeff)],
    radio_sigmoid_betas |-> [j \in Patients |-> SigmoidBeta(radio_coeff)] ]

SimulationParams ==
  { ParamsOf(profile, pol.coeff, pol.coeff, pol.window_size) :
      profile \in [Patients -> PatientProfiles], pol \in Policies }

\* alpha, beta, beta_c, rho, K of patient j
Patient(j) ==
  [ alpha |-> simulation_params.alpha[j], beta |-> simulation_params.beta[j],
    beta_c |-> simulation_params.beta_c[j], rho |-> simulation_params.rho[j],
    K |-> simulation_params.K[j] ]

\* assigned_actions: None, or probabilities [i, t, 0] (chemo) and [i, t, 1]
\* (radio) that force one chemo application at step 0 and nothing else.
NoAssignedActions == [given |-> FALSE]
ForcedChemoAtZero ==
  [ given |-> TRUE,
    probs |-> [j \in Patients |->
                [k \in 0 .. NumTimeSteps - 1 |->
                  <<IF k = 0 THEN MilliOne ELSE 0, 0>>]] ]
AssignedActions == {NoAssignedActions, ForcedChemoAtZero}

NoOutputs == [returned |-> FALSE]

\* No function has been called yet.
InitSimulators ==
  /\ fn = "idle"
  /\ pc = "idle"
  /\ simulation_params = [window_size |-> 0]
  /\ assigned_actions = NoAssignedActions
  /\ treatment_options = <<>>
  /\ i = 0
  /\ t = 0
  /\ cancer_volume = <<>>
  /\ chemo_dosage = <<>>
  /\ radio_dosage = <<>>
  /\ chemo_application_point = <<>>
  /\ radio_application_point = <<>>
  /\ chemo_probabilities = <<>>
  /\ radio_probabilities = <<>>
  /\ sequence_lengths = <<>>
  /\ patient_types_all_trajectories = <<>>
  /\ patient_ids_all_trajectories = <<>>
  /\ patient_current_t = <<>>
  /\ test_idx = 0
  /\ noise_terms = <<>>
  /\ noise = <<>>
  /\ recovery_rvs = <<>>
  /\ chemo_application_rvs = <<>>
  /\ radio_application_rvs = <<>>
  /\ factual_cancer_volume = <<>>
  /\ factual_chemo_dosage = <<>>
  /\ factual_radio_dosage = <<>>
  /\ factual_chemo_application_point = <<>>
  /\ factual_radio_application_point = <<>>
  /\ factual_chemo_probabilities = <<>>
  /\ factual_radio_probabilities = <<>>
  /\ outputs = NoOutputs

\* get_standard_params has not been called.
NotProjecting ==
  /\ projection_pc = "idle"
  /\ num_time_steps = 0
  /\ projection_horizon = 0
  /\ decision_t = 0
  /\ projection_step = 0
  /\ noise_index = 0
  /\ volume_index = 0

NotSampling ==
  /\ params_pc = "idle"
  /\ patient_types = <<>>
  /\ initial_volumes = <<>>
  /\ simulated_params = <<>>
  /\ param_holder = <<>>
  /\ holder_i = 0
  /\ num_batches = 0
  /\ draws = <<>>
  /\ idx = <<>>
  /\ output_params = <<>>

NoArgs == [seed |-> 0, chemo_coeff |-> 0, radio_coeff |-> 0, window_size |-> 0]

\* The three simulators called on their own: get_cancer_sim_data is not
\* running.
Init ==
  /\ InitSimulators
  /\ NotSampling
  /\ NotProjecting
  /\ rng = 0
  /\ gen_pc = "none"
  /\ gen_args = NoArgs
  /\ rng_at_call = <<>>
  /\ pickle_map = <<>>
  /\ returned_maps = <<>>

\* ---------------------------------------------------------------- simulate
\* simulate, lines 272-340: the arguments, the zeroed arrays and the draws
\* nz, rec, crv, rrv of all patients.
SimulateCall(params, assigned, nz, rec, crv, rrv) ==
  /\ fn = "idle"
  /\ simulation_params' = params
  /\ assigned_actions' = assigned
  /\ noise_terms' = nz
  /\ recovery_rvs' = rec
  /\ chemo_application_rvs' = crv
  /\ radio_application_rvs' = rrv
  /\ fn' = "simulate"
  /\ pc' = "patient"
  /\ i' = 0
  /\ cancer_volume' = Zeros2(NumPatients, NumTimeSteps)
  /\ chemo_dosage' = Zeros2(NumPatients, NumTimeSteps)
  /\ radio_dosage' = Zeros2(NumPatients, NumTimeSteps)
  /\ chemo_application_point' = Zeros2(NumPatients, NumTimeSteps)
  /\ radio_application_point' = Zeros2(NumPatients, NumTimeSteps)
  /\ chemo_probabilities' = Zeros2(NumPatients, NumTimeSteps)
  /\ radio_probabilities' = Zeros2(NumPatients, NumTimeSteps)
  /\ sequence_lengths' = Zeros(NumPatients)
  /\ UNCHANGED <<t, treatment_options, rowVars, noise, factualVars, outputs>>

\* simulate called with any parameters and any draws.
SimulateEnter ==
  /\ fn = "idle"
  /\ \E params \in SimulationParams, assigned \in AssignedActions,
        nz \in Rows({-1, 1}, NoiseArrs(NumTimeSteps)),
        rec \in Rows({1}, RecoveryArrs(NumTimeSteps)),
        crv \in Rows({1}, ApplicationArrs(NumTimeSteps)),
        rrv \in Rows({1}, ApplicationArrs(NumTimeSteps)) :
       SimulateCall(params, assigned, nz, rec, crv, rrv)
  /\ UNCHANGED genVars

\* simulate, lines 341-356: the next patient's noise row and initial volume.
\* The time loop is range(0, num_time_steps - 1).
SimulatePatient ==
  /\ fn = "simulate"
  /\ pc = "patient"
  /\ i < NumPatients
  /\ noise' = noise_terms[i]
  /\ cancer_volume' = [cancer_volume EXCEPT ![i][0] = simulation_params.initial_volumes[i]]
  /\ t' = 0
  /\ pc' = "step"
  /\ UNCHANGED <<fn, i, callVars, chemo_dosage, radio_dosage, chemo_application_point,
                 radio_application_point, chemo_probabilities, radio_probabilities,
                 sequence_lengths, rowVars, noise_terms, recovery_rvs,
                 chemo_application_rvs, radio_application_rvs, factualVars, outputs,
                 genVars>>

\* Lines 370-390: the probabilities of step t, assigned or from the policy.
SimulateChemoProb ==
  IF assigned_actions.given THEN assigned_actions.probs[i][t][1]
  ELSE TreatmentProbability(simulation_params.chemo_sigmoid_betas[i],
                            simulation_params.chemo_sigmoid_intercepts[i],
                            CancerMetricUsed(cancer_volume[i], t, simulation_params.window_size))
SimulateRadioProb ==
  IF assigned_actions.given THEN assigned_actions.probs[i][t][2]
  ELSE TreatmentProbability(simulation_params.radio_sigmoid_betas[i],
                            simulation_params.radio_sigmoid_intercepts[i],
                            CancerMetricUsed(cancer_volume[i], t, simulation_params.window_size))

\* Lines 419-428: the death check, then the recovery check on
\* recovery_rvs[i, t + 1]; either one stores its value and breaks.
SimulateDeath(volume) == FGreater(volume, tumour_death_threshold)
SimulateRecovery(volume) == FLess(recovery_rvs[i][t + 1], RecoveryProbability(volume))
SimulateStored(volume) ==
  IF SimulateDeath(volume) THEN tumour_death_threshold
  ELSE IF SimulateRecovery(volume) THEN 0
  ELSE volume
\* A variant that never leaves the time loop.
SimulateBreakNever(volume) == FALSE
SimulateBreak(volume) == SimulateDeath(volume) \/ SimulateRecovery(volume)

\* simulate, lines 357-428: one iteration of the time loop.
SimulateStep ==
  /\ fn = "simulate"
  /\ pc = "step"
  /\ LET previous_chemo_dose == IF t = 0 THEN 0 ELSE chemo_dosage[i][t - 1]
         chemo_prob == SimulateChemoProb
         radio_prob == SimulateRadioProb
         radio == FLess(radio_application_rvs[i][t], radio_prob)
         chemo == FLess(chemo_application_rvs[i][t], chemo_prob)
         current_chemo_dose == IF chemo THEN chemo_amt * DoseScale ELSE 0
         dosage == ChemoDosage(previous_chemo_dose, current_chemo_dose)
         radio_dose == IF radio THEN radio_amt ELSE 0
         volume == NextVolume(cancer_volume[i][t], Patient(i), dosage, radio_dose, noise[t])
     IN /\ chemo_probabilities' = [chemo_probabilities EXCEPT ![i][t] = chemo_prob]
        /\ radio_probabilities' = [radio_probabilities EXCEPT ![i][t] = radio_prob]
        /\ radio_application_point' =
             [radio_application_point EXCEPT ![i][t] = IF radio THEN 1 ELSE @]
        /\ radio_dosage' = [radio_dosage EXCEPT ![i][t] = IF radio THEN radio_amt ELSE @]
        /\ chemo_application_point' =
             [chemo_application_point EXCEPT ![i][t] = IF chemo THEN 1 ELSE @]
        /\ chemo_dosage' = [chemo_dosage EXCEPT ![i][t] = dosage]
        /\ cancer_volume' = [cancer_volume EXCEPT ![i][t + 1] = SimulateStored(volume)]
        /\ IF SimulateBreak(volume) \/ t + 1 >= NumTimeSteps - 1
             THEN pc' = "package" /\ t' = t
             ELSE pc' = "step" /\ t' = t + 1
  /\ UNCHANGED <<fn, i, callVars, sequence_lengths, rowVars, drawVars, factualVars, outputs,
                 genVars>>

\* A variant that stores the last value of the loop variable itself.
SimulateSequenceLengthShort(last_t) == last_t
\* Line 431: int(t + 1), t the last value of the loop variable.
SimulateSequenceLength(last_t) == last_t + 1

\* simulate, line 431: sequence_lengths[i] = int(t + 1), then the next patient.
SimulatePackage ==
  /\ fn = "simulate"
  /\ pc = "package"
  /\ sequence_lengths' = [sequence_lengths EXCEPT ![i] = SimulateSequenceLength(t)]
  /\ i' = i + 1
  /\ pc' = IF i + 1 < NumPatients THEN "patient" ELSE "return"
  /\ UNCHANGED <<fn, t, callVars, cancer_volume, chemo_dosage, radio_dosage,
                 chemo_application_point, radio_application_point, chemo_probabilities,
                 radio_probabilities, rowVars, drawVars, factualVars, outputs, genVars>>

\* simulate, lines 433-447: the returned dictionary.
SimulateReturn ==
  /\ fn = "simulate"
  /\ pc = "return"
  /\ outputs' = [ returned |-> TRUE,
                  of |-> "simulate",
                  cancer_volume |-> cancer_volume,
                  chemo_dosage |-> chemo_dosage,
                  radio_dosage |-> radio_dosage,
                  chemo_application |-> chemo_application_point,
                  radio_application |-> radio_application_point,
                  chemo_probabilities |-> chemo_probabilities,
                  radio_probabilities |-> radio_probabilities,
                  sequence_lengths |-> sequence_lengths,
                  patient_types |-> simulation_params.patient_types ]
  /\ fn' = "returned"
  /\ pc' = "done"
  /\ UNCHANGED <<i, t, callVars, simArrays, rowVars, drawVars, factualVars, genVars>>

\* simulate, lines 357-431, for one patient with parameters p whose
\* applications are given (assigned probabilities of 1.0 and 0.0): the
\* iterations from s on, from the volume of s and the dosage of s - 1, with
\* the noise nz and the recovery draws rec.  The result is the sequence
\* length, why the loop was left and the last volume stored.
RECURSIVE SimulatePath(_, _, _, _, _, _, _, _)
SimulatePath(p, volume, previous_chemo_dose, chemo_application, radio_application, nz, rec, s) ==
  LET current_chemo_dose == IF chemo_application[s] = 1 THEN chemo_amt * DoseScale ELSE 0
      dosage == ChemoDosage(previous_chemo_dose, current_chemo_dose)
      radio_dose == IF radio_application[s] = 1 THEN radio_amt ELSE 0
      computed == NextVolume(volume, p, dosage, radio_dose, nz[s])
      death == FGreater(computed, tumour_death_threshold)
      recovery == ~death /\ FLess(rec[s + 1], RecoveryProbability(computed))
  IN IF death
       THEN [sequence_length |-> s + 1, reason |-> "death", volume |-> tumour_death_threshold]
     ELSE IF recovery
       THEN [sequence_length |-> s + 1, reason |-> "recovery", volume |-> 0]
     ELSE IF s + 1 >= NumTimeSteps - 1
       THEN [sequence_length |-> s + 1, reason |-> "horizon", volume |-> computed]
     ELSE SimulatePath(p, computed, dosage, chemo_application, radio_application, nz, rec,
                       s + 1)

\* ------------------------------------------------ the branching generators
\* The factual part of one iteration of the time loop, the same code in
\* simulate_counterfactual_test_data (lines 547-608) and in
\* simulate_sequence_test (lines 797-858).  The window of the policy is read
\* from cancer_volume[i], row i of the output buffer.  The result holds the
\* seven factual arrays after the iteration.
FactualStep ==
  LET previous_chemo_dose == IF t = 0 THEN 0 ELSE factual_chemo_dosage[t - 1]
      metric == CancerMetricUsed(cancer_volume[i], t, simulation_params.window_size)
      radio_prob == TreatmentProbability(simulation_params.radio_sigmoid_betas[i],
                                         simulation_params.radio_sigmoid_intercepts[i], metric)
      chemo_prob == TreatmentProbability(simulation_params.chemo_sigmoid_betas[i],
                                         simulation_params.chemo_sigmoid_intercepts[i], metric)
      radio == FLess(radio_application_rvs[t], radio_prob)
      chemo == FLess(chemo_application_rvs[t], chemo_prob)
      current_chemo_dose == IF chemo THEN chemo_amt * DoseScale ELSE 0
      dosage == ChemoDosage(previous_chemo_dose, current_chemo_dose)
      radio_dose == IF radio THEN radio_amt ELSE factual_radio_dosage[t]
      volume == NextVolume(factual_cancer_volume[t], Patient(i), dosage, radio_dose,
                           noise[t + 1])
  IN [ previous_chemo_dose |-> previous_chemo_dose,
       cancer_volume |-> [factual_cancer_volume EXCEPT
                            ![t + 1] = Clip(volume, 0, tumour_death_threshold)],
       chemo_dosage |-> [factual_chemo_dosage EXCEPT ![t] = dosage],
       radio_dosage |-> [factual_radio_dosage EXCEPT ![t] = radio_dose],
       chemo_application_point |->
         [factual_chemo_application_point EXCEPT ![t] = IF chemo THEN 1 ELSE @],
       radio_application_point |->
         [factual_radio_application_point EXCEPT ![t] = IF radio THEN 1 ELSE @],
       chemo_probabilities |-> [factual_chemo_probabilities EXCEPT ![t] = chemo_prob],
       radio_probabilities |-> [factual_radio_probabilities EXCEPT ![t] = radio_prob] ]

\* A variant of the loops that is never left before the last time step.
FactualBreakNever(volume) == FALSE

\* Lines 678-681 and 944-947: the loop is left when the factual volume of
\* t + 1 has reached the death threshold or recovery_rvs[t] is at most the
\* recovery probability of that volume.
FactualBreak(volume) ==
  \/ FGeq(volume, tumour_death_threshold)
  \/ FLeq(recovery_rvs[t], RecoveryProbability(volume))

\* row[: n] = values (values has n elements, indexed from 0)
WriteSlice(row, n, values) == [k \in DOMAIN row |-> IF k < n THEN values[k] ELSE row[k]]

\* A variant that copies the prefix one place late.
AppendToShifted(arr, n, last) ==
  [k \in 0 .. n |-> IF k < n THEN arr[IF k = 0 THEN 0 ELSE k - 1] ELSE last]
\* np.append(arr[: n], [last])
AppendTo(arr, n, last) == [k \in 0 .. n |-> IF k < n THEN arr[k] ELSE last]

\* One field of a row written over the old row of its buffer: the volumes and
\* the applications are slice assignments, the other fields are scalars.
WriteField(old, row, field) ==
  IF field = "cancer_volume"
    THEN WriteSlice(old, row.volume_length, row.cancer_volume)
    ELSE IF field \in {"chemo_application", "radio_application"}
      THEN WriteSlice(old, row.application_length, row[field])
      ELSE row[field]

\* The rows of `rows' (a sequence) written to `buffer' from row test_idx on.
WriteRows(buffer, rows, field) ==
  [r \in DOMAIN buffer |->
     IF r >= test_idx /\ r < test_idx + Len(rows)
       THEN WriteField(buffer[r], rows[r - test_idx + 1], field)
       ELSE buffer[r]]

\* ---------------------------------------- simulate_counterfactual_test_data
\* treatment_options of lines 619-624: first = chemo, second = radio.
CounterfactualOptions == << <<0, 0>>, <<0, 1>>, <<1, 0>>, <<1, 1>> >>

\* Lines 450-514: np.random.seed(100), the arguments and the zeroed buffers
\* of num_test_points = num_patients * num_time_steps * num_treatments rows.
CounterfactualNumTestPoints == NumPatients * NumTimeSteps * num_treatments

CounterfactualCall(params) ==
  /\ fn = "idle"
  /\ simulation_params' = params
  /\ fn' = "counterfactual"
  /\ pc' = "patient"
  /\ i' = 0
  /\ test_idx' = 0
  /\ cancer_volume' = Zeros2(CounterfactualNumTestPoints, NumTimeSteps)
  /\ chemo_application_point' = Zeros2(CounterfactualNumTestPoints, NumTimeSteps)
  /\ radio_application_point' = Zeros2(CounterfactualNumTestPoints, NumTimeSteps)
  /\ sequence_lengths' = Zeros(CounterfactualNumTestPoints)
  /\ patient_types_all_trajectories' = Zeros(CounterfactualNumTestPoints)
  /\ UNCHANGED <<t, assigned_actions, treatment_options, chemo_dosage, radio_dosage,
                 chemo_probabilities, radio_probabilities, patient_ids_all_trajectories,
                 patient_current_t, drawVars, factualVars, outputs>>

\* simulate_counterfactual_test_data called with any parameters.
CounterfactualEnter ==
  /\ fn = "idle"
  /\ \E params \in SimulationParams : CounterfactualCall(params)
  /\ UNCHANGED genVars

\* The start of a patient with its draws, the same code in lines 517-543 and
\* 767-793 but for the length of the noise array: the noise, the recovery and
\* the application draws of the patient, the zeroed factual arrays and the
\* initial volume.
BranchingPatient(nz, rec, crv, rrv) ==
  /\ pc = "patient"
  /\ i < NumPatients
  /\ noise' = nz
  /\ recovery_rvs' = rec
  /\ chemo_application_rvs' = crv
  /\ radio_application_rvs' = rrv
  /\ factual_cancer_volume' =
       [Zeros(NumTimeSteps) EXCEPT ![0] = simulation_params.initial_volumes[i]]
  /\ factual_chemo_dosage' = Zeros(NumTimeSteps)
  /\ factual_radio_dosage' = Zeros(NumTimeSteps)
  /\ factual_chemo_application_point' = Zeros(NumTimeSteps)
  /\ factual_radio_application_point' = Zeros(NumTimeSteps)
  /\ factual_chemo_probabilities' = Zeros(NumTimeSteps)
  /\ factual_radio_probabilities' = Zeros(NumTimeSteps)
  /\ t' = 0
  /\ pc' = "step"
  /\ UNCHANGED <<fn, i, callVars, simArrays, rowVars, noise_terms, outputs>>

\* Lines 517-543.
CounterfactualPatient ==
  /\ fn = "counterfactual"
  /\ pc = "patient"
  /\ \E nz \in NoiseArrs(NumTimeSteps), rec \in RecoveryArrs(NumTimeSteps),
        app \in ApplicationPairs(NumTimeSteps) :
       BranchingPatient(nz, rec, app[1], app[2])
  /\ UNCHANGED genVars

\* Lines 611-616: the factual row of decision time t.
CounterfactualFactualRow(j, d, f) ==
  [ cancer_volume |-> f.cancer_volume,
    chemo_application |-> f.chemo_application_point,
    radio_application |-> f.radio_application_point,
    volume_length |-> NumTimeSteps,
    application_length |-> NumTimeSteps,
    patient_type |-> simulation_params.patient_types[j],
    sequence_length |-> d + 1 ]

\* The index of the noise element read for the volume of d + 1.
CounterfactualNoiseIndex(d) == d + 1

\* Lines 633-660: the volume of d + 1 under treatment_option, from the
\* factual volume of decision time d of patient j.
CounterfactualVolume(j, d, f, treatment_option) ==
  LET current_chemo_dose == IF treatment_option[1] = 1 THEN chemo_amt * DoseScale ELSE 0
      counterfactual_radio_dosage == IF treatment_option[2] = 1 THEN radio_amt ELSE 0
      counterfactual_chemo_dosage == ChemoDosage(f.previous_chemo_dose, current_chemo_dose)
  IN NextVolume(f.cancer_volume[d], Patient(j), counterfactual_chemo_dosage,
                counterfactual_radio_dosage, noise[CounterfactualNoiseIndex(d)])

\* A variant that counts the counterfactual volume in.
CounterfactualSequenceLengthLong(d) == d + 2
\* Line 675: the sequence length stored with a counterfactual row of
\* decision time d.
CounterfactualSequenceLength(d) == d + 1

\* Lines 662-676: the row of one counterfactual treatment option.
CounterfactualRow(j, d, f, treatment_option) ==
  [ cancer_volume |->
      AppendTo(f.cancer_volume, d + 1, CounterfactualVolume(j, d, f, treatment_option)),
    chemo_application |-> AppendTo(f.chemo_application_point, d, treatment_option[1]),
    radio_application |-> AppendTo(f.radio_application_point, d, treatment_option[2]),
    volume_length |-> d + 2,
    application_length |-> d + 1,
    patient_type |-> simulation_params.patient_types[j],
    sequence_length |-> CounterfactualSequenceLength(d) ]

\* A variant that compares the chemo application alone.
IsFactualOptionChemoOnly(d, f, treatment_option) ==
  f.chemo_application_point[d] = treatment_option[1]

\* Lines 626-632: the options other than the factual treatment of d.
IsFactualOption(d, f, treatment_option) ==
  /\ f.chemo_application_point[d] = treatment_option[1]
  /\ f.radio_application_point[d] = treatment_option[2]

RECURSIVE CounterfactualRows(_, _, _, _)
CounterfactualRows(j, d, f, k) ==
  IF k > Len(CounterfactualOptions) THEN <<>>
  ELSE IF IsFactualOption(d, f, CounterfactualOptions[k])
    THEN CounterfactualRows(j, d, f, k + 1)
  ELSE <<CounterfactualRow(j, d, f, CounterfactualOptions[k])>>
         \o CounterfactualRows(j, d, f, k + 1)

\* Lines 545-681: one iteration of the time loop: the factual step, the
\* factual row, the rows of the other treatment options, and the break.
CounterfactualStep ==
  /\ fn = "counterfactual"
  /\ pc = "step"
  /\ \E f \in {FactualStep} :
     \E rows \in {<<CounterfactualFactualRow(i, t, f)>> \o CounterfactualRows(i, t, f, 1)} :
        /\ factual_cancer_volume' = f.cancer_volume
        /\ factual_chemo_dosage' = f.chemo_dosage
        /\ factual_radio_dosage' = f.radio_dosage
        /\ factual_chemo_application_point' = f.chemo_application_point
        /\ factual_radio_application_point' = f.radio_application_point
        /\ factual_chemo_probabilities' = f.chemo_probabilities
        /\ factual_radio_probabilities' = f.radio_probabilities
        /\ cancer_volume' = WriteRows(cancer_volume, rows, "cancer_volume")
        /\ chemo_application_point' = WriteRows(chemo_application_point, rows, "chemo_application")
        /\ radio_application_point' = WriteRows(radio_application_point, rows, "radio_application")
        /\ patient_types_all_trajectories' =
             WriteRows(patient_types_all_trajectories, rows, "patient_type")
        /\ sequence_lengths' = WriteRows(sequence_lengths, rows, "sequence_length")
        /\ test_idx' = test_idx + Len(rows)
        /\ IF FactualBreak(f.cancer_volume[t + 1]) \/ t + 1 >= NumTimeSteps - 1
             THEN pc' = "patient" /\ i' = i + 1 /\ t' = t
             ELSE pc' = "step" /\ i' = i /\ t' = t + 1
  /\ UNCHANGED <<fn, callVars, chemo_dosage, radio_dosage, chemo_probabilities,
                 radio_probabilities, patient_ids_all_trajectories, patient_current_t,
                 drawVars, outputs, genVars>>

\* A variant that cuts one row too early.
TruncatedShort(buffer) == [r \in 0 .. test_idx - 2 |-> buffer[r]]
\* buffer[: test_idx]
Truncated(buffer) == [r \in 0 .. test_idx - 1 |-> buffer[r]]

\* Lines 683-693: the returned dictionary, every buffer cut to test_idx rows.
CounterfactualReturn ==
  /\ fn = "counterfactual"
  /\ pc = "patient"
  /\ i >= NumPatients
  /\ outputs' = [ returned |-> TRUE,
                  of |-> "counterfactual",
                  cancer_volume |-> Truncated(cancer_volume),
                  chemo_application |-> Truncated(chemo_application_point),
                  radio_application |-> Truncated(radio_application_point),
                  sequence_lengths |-> Truncated(sequence_lengths),
                  patient_types |-> Truncated(patient_types_all_trajectories) ]
  /\ fn' = "returned"
  /\ pc' = "done"
  /\ UNCHANGED <<i, t, callVars, simArrays, rowVars, drawVars, factualVars, genVars>>

\* -------------------------------------------------- simulate_sequence_test
\* The action sequences of get_cancer_sim_data (lines 1068-1081), for a
\* horizon of n steps: one chemo application at step 0, 1, ..., n - 1 and
\* nothing else, then the same with one radio application.
OneHot(n, at, pair) == [k \in 1 .. n |-> IF k = at + 1 THEN pair ELSE <<0, 0>>]
OneHotOptions(n) ==
  [k \in 1 .. 2 * n |-> IF k <= n THEN OneHot(n, k - 1, <<1, 0>>)
                        ELSE OneHot(n, k - n - 1, <<0, 1>>)]
\* A list whose one action sequence has projection_horizon + 1 pairs: the
\* caller's list is taken as it is (lines 696-764 test nothing).
OverlongOptions == <<OneHot(ProjectionHorizon + 1, 0, <<1, 0>>)>>
\* A longer list: the action sequences of get_cancer_sim_data and, twice, the
\* sequence without any application.
Untreated == [k \in 1 .. ProjectionHorizon |-> <<0, 0>>]
ManyOptions == OneHotOptions(ProjectionHorizon) \o <<Untreated, Untreated>>
TreatmentOptionLists == {OneHotOptions(ProjectionHorizon), OverlongOptions}

\* Lines 749-764: num_test_points = 2 * num_patients * num_time_steps *
\* projection_horizon rows of num_time_steps + projection_horizon columns.
SequenceNumTestPoints == 2 * NumPatients * NumTimeSteps * ProjectionHorizon
SequenceRowLength == NumTimeSteps + ProjectionHorizon

\* Lines 696-764: np.random.seed(100), the arguments and the zeroed buffers.
SequenceCall(params, options) ==
  /\ fn = "idle"
  /\ simulation_params' = params
  /\ treatment_options' = options
  /\ fn' = "sequence"
  /\ pc' = "patient"
  /\ i' = 0
  /\ test_idx' = 0
  /\ cancer_volume' = Zeros2(SequenceNumTestPoints, SequenceRowLength)
  /\ chemo_application_point' = Zeros2(SequenceNumTestPoints, SequenceRowLength)
  /\ radio_application_point' = Zeros2(SequenceNumTestPoints, SequenceRowLength)
  /\ sequence_lengths' = Zeros(SequenceNumTestPoints)
  /\ patient_types_all_trajectories' = Zeros(SequenceNumTestPoints)
  /\ patient_ids_all_trajectories' = Zeros(SequenceNumTestPoints)
  /\ patient_current_t' = Zeros(SequenceNumTestPoints)
  /\ UNCHANGED <<t, assigned_actions, chemo_dosage, radio_dosage, chemo_probabilities,
                 radio_probabilities, drawVars, factualVars, outputs>>

\* simulate_sequence_test called with any parameters.
SequenceEnter ==
  /\ fn = "idle"
  /\ \E params \in SimulationParams, options \in TreatmentOptionLists :
       SequenceCall(params, options)
  /\ UNCHANGED genVars

\* A call with the longer list of action sequences.
SequenceEnterMany ==
  /\ fn = "idle"
  /\ \E params \in SimulationParams : SequenceCall(params, ManyOptions)
  /\ UNCHANGED genVars

\* Lines 767-793: the noise has num_time_steps + 20 elements.
SequencePatient ==
  /\ fn = "sequence"
  /\ pc = "patient"
  /\ \E nz \in NoiseArrs(NumTimeSteps + NoiseExtra), rec \in RecoveryArrs(NumTimeSteps),
        app \in ApplicationPairs(NumTimeSteps) :
       BranchingPatient(nz, rec, app[1], app[2])
  /\ UNCHANGED genVars

\* arr[: n] placed in np.zeros(len)
Prefix(arr, n, len) == [k \in 0 .. len - 1 |-> IF k < n THEN arr[k] ELSE 0]

\* A variant that leaves the applications of a branch without the factual
\* applications.
BranchStartBlankActions(d, f) ==
  [ cancer_volume |-> Prefix(f.cancer_volume, d + 2, d + 1 + ProjectionHorizon + 1),
    chemo_application_point |->
      Prefix(f.chemo_application_point, 0, d + 1 + ProjectionHorizon),
    radio_application_point |->
      Prefix(f.radio_application_point, 0, d + 1 + ProjectionHorizon),
    chemo_dosage |-> Prefix(f.chemo_dosage, d + 1, d + 1 + ProjectionHorizon),
    radio_dosage |-> Prefix(f.radio_dosage, d + 1, d + 1 + ProjectionHorizon) ]

\* Lines 862-886: the five arrays of a branch, holding the factual prefix.
BranchStart(d, f) ==
  [ cancer_volume |-> Prefix(f.cancer_volume, d + 2, d + 1 + ProjectionHorizon + 1),
    chemo_application_point |->
      Prefix(f.chemo_application_point, d + 1, d + 1 + ProjectionHorizon),
    radio_application_point |->
      Prefix(f.radio_application_point, d + 1, d + 1 + ProjectionHorizon),
    chemo_dosage |-> Prefix(f.chemo_dosage, d + 1, d + 1 + ProjectionHorizon),
    radio_dosage |-> Prefix(f.radio_dosage, d + 1, d + 1 + ProjectionHorizon) ]

\* A variant that reads the noise element of the step before.
ProjectionNoiseIndexStale(current_t) == current_t
\* The index of the noise element read for the volume of current_t + 1.
ProjectionNoiseIndex(current_t) == current_t + 1

\* Lines 888-923: the projection steps projection_time, ..., horizon - 1 of
\* treatment_option applied to branch b of decision time d of patient j.
RECURSIVE Project(_, _, _, _, _)
Project(j, d, b, treatment_option, projection_time) ==
  IF projection_time >= ProjectionHorizon THEN b
  ELSE
    LET current_t == d + 1 + projection_time
        previous_chemo_dose == b.chemo_dosage[current_t - 1]
        chemo == treatment_option[projection_time + 1][1] = 1
        radio == treatment_option[projection_time + 1][2] = 1
        current_chemo_dose == IF chemo THEN chemo_amt * DoseScale ELSE 0
        dosage == ChemoDosage(previous_chemo_dose, current_chemo_dose)
        radio_dose == IF radio THEN radio_amt ELSE 0
        volume == NextVolumeProjected(b.cancer_volume[current_t], Patient(j), dosage,
                                      radio_dose, noise[ProjectionNoiseIndex(current_t)])
    IN Project(j, d,
         [ cancer_volume |-> [b.cancer_volume EXCEPT ![current_t + 1] = volume],
           chemo_application_point |->
             [b.chemo_application_point EXCEPT ![current_t] = IF chemo THEN 1 ELSE @],
           radio_application_point |->
             [b.radio_application_point EXCEPT ![current_t] = IF radio THEN 1 ELSE @],
           chemo_dosage |-> [b.chemo_dosage EXCEPT ![current_t] = dosage],
           radio_dosage |-> [b.radio_dosage EXCEPT ![current_t] = radio_dose] ],
         treatment_option, projection_time + 1)

\* A variant that keeps every branch.
BranchSkippedNever(b) == FALSE
\* Line 925: np.isnan(counterfactual_cancer_volume).any()
BranchSkipped(b) == \E k \in DOMAIN b.cancer_volume : IsNaN(b.cancer_volume[k])

\* Line 941: the sequence length stored with a row of decision time d.
SequenceSequenceLength(d) == d + 2

\* Lines 928-941: the row of a branch.
SequenceRow(j, d, b) ==
  [ cancer_volume |-> b.cancer_volume,
    chemo_application |-> b.chemo_application_point,
    radio_application |-> b.radio_application_point,
    volume_length |-> d + 1 + ProjectionHorizon + 1,
    application_length |-> d + 1 + ProjectionHorizon,
    patient_type |-> simulation_params.patient_types[j],
    patient_id |-> j,
    current_t |-> d,
    sequence_length |-> SequenceSequenceLength(d) ]

\* Lines 860-942: the rows of the action sequences k, k + 1, ... of
\* treatment_options, in order, without the skipped branches.
RECURSIVE SequenceRows(_, _, _, _)
SequenceRows(j, d, f, k) ==
  IF k > Len(treatment_options) THEN <<>>
  ELSE LET b == Project(j, d, BranchStart(d, f), treatment_options[k], 0)
       IN IF BranchSkipped(b) THEN SequenceRows(j, d, f, k + 1)
          ELSE <<SequenceRow(j, d, b)>> \o SequenceRows(j, d, f, k + 1)

\* Lines 795-947: one iteration of the time loop: the factual step, the
\* branches of all action sequences, and the break.  Writing row
\* num_test_points of a buffer raises IndexError.
SequenceStep ==
  /\ fn = "sequence"
  /\ pc = "step"
  /\ \E f \in {FactualStep} :
     \E rows \in {SequenceRows(i, t, f, 1)} :
     LET fits == test_idx + Len(rows) <= SequenceNumTestPoints
     IN /\ factual_cancer_volume' = f.cancer_volume
        /\ factual_chemo_dosage' = f.chemo_dosage
        /\ factual_radio_dosage' = f.radio_dosage
        /\ factual_chemo_application_point' = f.chemo_application_point
        /\ factual_radio_application_point' = f.radio_application_point
        /\ factual_chemo_probabilities' = f.chemo_probabilities
        /\ factual_radio_probabilities' = f.radio_probabilities
        /\ cancer_volume' = WriteRows(cancer_volume, rows, "cancer_volume")
        /\ chemo_application_point' = WriteRows(chemo_application_point, rows, "chemo_application")
        /\ radio_application_point' = WriteRows(radio_application_point, rows, "radio_application")
        /\ patient_types_all_trajectories' =
             WriteRows(patient_types_all_trajectories, rows, "patient_type")
        /\ patient_ids_all_trajectories' =
             WriteRows(patient_ids_all_trajectories, rows, "patient_id")
        /\ patient_current_t' = WriteRows(patient_current_t, rows, "current_t")
        /\ sequence_lengths' = WriteRows(sequence_lengths, rows, "sequence_length")
        /\ test_idx' = Min(test_idx + Len(rows), SequenceNumTestPoints)
        /\ IF ~fits
             THEN fn' = "raised" /\ pc' = "IndexError" /\ i' = i /\ t' = t
             ELSE /\ fn' = fn
                  /\ IF FactualBreak(f.cancer_volume[t + 1]) \/ t + 1 >= NumTimeSteps - 1
                       THEN pc' = "patient" /\ i' = i + 1 /\ t' = t
                       ELSE pc' = "step" /\ i' = i /\ t' = t + 1
  /\ UNCHANGED <<callVars, chemo_dosage, radio_dosage, chemo_probabilities,
                 radio_probabilities, drawVars, outputs, genVars>>

\* Lines 949-961: the returned dictionary, every buffer cut to test_idx rows.
SequenceReturn ==
  /\ fn = "sequence"
  /\ pc = "patient"
  /\ i >= NumPatients
  /\ outputs' = [ returned |-> TRUE,
                  of |-> "sequence",
                  cancer_volume |-> Truncated(cancer_volume),
                  chemo_application |-> Truncated(chemo_application_point),
                  radio_application |-> Truncated(radio_application_point),
                  sequence_lengths |-> Truncated(sequence_lengths),
                  patient_types |-> Truncated(patient_types_all_trajectories),
                  patient_ids_all_trajectories |-> Truncated(patient_ids_all_trajectories),
                  patient_current_t |-> Truncated(patient_current_t) ]
  /\ fn' = "returned"
  /\ pc' = "done"
  /\ UNCHANGED <<i, t, callVars, simArrays, rowVars, drawVars, factualVars, genVars>>

\* ------------------------------------------------ np.random's generator
\* The global generator of np.random, which every draw of the module reads
\* (scipy's truncnorm.rvs included): a state, the state after a draw, and
\* each draw a function of the state it is made in.
RngStates == 0 .. 15
RngNext(state) == (5 * state + 3) % Cardinality(RngStates)

RECURSIVE RngSkip(_, _)
RngSkip(state, n) == IF n <= 0 THEN state ELSE RngSkip(RngNext(state), n - 1)

\* A variant that leaves the generator as it was.
np_random_seed_ignored(state, seed) == state
\* np.random.seed(seed): the state depends on the seed alone.
np_random_seed(state, seed) == (7 * seed + 1) % Cardinality(RngStates)

\* The seed of lines 463 and 711.
BranchingSeed == 100

RngBit(state) == (2 * state) \div Cardinality(RngStates)

\* 0.01 * np.random.randn(n), np.random.rand(n) for the recovery and for the
\* application draws, and one patient of get_standard_params, drawn in `state'.
DrawNoise(state, n) ==
  LET a == Pick(NoiseVals, RngBit(state)) IN AltArr(n, a, 0 - a)
DrawRecovery(state, n) ==
  LET a == Pick(RecoveryVals, RngBit(state)) IN AltArr(n, a, a)
DrawApplication(state, n) ==
  StepArr(n, Pick(ApplicationVals, RngBit(state)), Pick(ApplicationVals, 1 - RngBit(state)))
DrawProfile(state) ==
  CHOOSE p \in PatientProfiles :
    p.initial_volume = Pick({q.initial_volume : q \in PatientProfiles}, RngBit(state))

\* get_confounding_params (lines 68-101) over get_standard_params (lines
\* 104-269), and params["window_size"] = window_size: every patient is drawn
\* from the generator, one state after the other.
get_confounding_params(state, chemo_coeff, radio_coeff, window_size) ==
  ParamsOf([j \in Patients |-> DrawProfile(RngSkip(state, j))],
           chemo_coeff, radio_coeff, window_size)

\* --------------------------------------------------- get_scaling_params
\* Lines 964-984: mean and standard deviation of the values of sim[k][i, :end],
\* end = sequence_lengths[i], over all patients; `unit' is the resolution in
\* which the squares are taken.
Term(x, unit, power) ==
  IF power = 0 THEN 1
  ELSE IF power = 1 THEN x \div unit
  ELSE (x \div unit) * (x \div unit)

RECURSIVE SumRow(_, _, _, _)
SumRow(row, n, unit, power) ==
  IF n <= 0 THEN 0
  ELSE Term(row[n - 1], unit, power) + SumRow(row, n - 1, unit, power)

RECURSIVE SumActive(_, _, _, _, _)
SumActive(arr, lengths, n, unit, power) ==
  IF n <= 0 THEN 0
  ELSE SumRow(arr[n - 1], lengths[n - 1], unit, power)
         + SumActive(arr, lengths, n - 1, unit, power)

RECURSIVE ISqrt(_, _, _)
ISqrt(x, lo, hi) ==
  IF lo >= hi THEN lo
  ELSE LET mid == (lo + hi + 1) \div 2
       IN IF mid * mid <= x THEN ISqrt(x, mid, hi) ELSE ISqrt(x, lo, mid - 1)

ScalingOf(arr, lengths, unit) ==
  LET count == SumActive(arr, lengths, NumPatients, 1, 0)
      mean == SumActive(arr, lengths, NumPatients, 1, 1) \div count
      coarse_mean == SumActive(arr, lengths, NumPatients, unit, 1) \div count
      variance == SumActive(arr, lengths, NumPatients, unit, 2) \div count
                    - coarse_mean * coarse_mean
  IN [mean |-> mean, std |-> unit * ISqrt(Max(variance, 0), 0, 2000)]

get_scaling_params(sim) ==
  [ cancer_volume |-> ScalingOf(sim.cancer_volume, sim.sequence_lengths, 100),
    chemo_dosage |-> ScalingOf(sim.chemo_dosage, sim.sequence_lengths, 1),
    radio_dosage |-> ScalingOf(sim.radio_dosage, sim.sequence_lengths, 1),
    patient_types |->
      ScalingOf([j \in Patients |-> [k \in {0} |-> sim.patient_types[j]]],
                [j \in Patients |-> 1], 1) ]

\* ------------------------------------------- get_cancer_sim_data._generate
\* The arguments of get_cancer_sim_data, called with b_load false: the
\* default seed or another one.
Seeds == {1, BranchingSeed}
GenArgs ==
  { [seed |-> sd, chemo_coeff |-> pol.coeff, radio_coeff |-> pol.coeff,
     window_size |-> pol.window_size] : sd \in Seeds, pol \in Policies }

\* The states the generator of the process can be in when get_cancer_sim_data
\* is called.
PriorStates == {0, 5, 11}

GenDatasets ==
  {"training_data", "validation_data", "test_data_factuals", "test_data", "test_data_seq"}

\* The order of _generate: parameters, then the dataset made from them.
GenAfterParams ==
  [ training_params |-> "training_data", validation_params |-> "validation_data",
    test_params |-> "test_data_factuals", seq_params |-> "test_data_seq" ]
GenAfterData ==
  [ training_data |-> "validation_params", validation_data |-> "test_params",
    test_data_factuals |-> "test_data", test_data |-> "seq_params",
    test_data_seq |-> "scaling_data" ]

\* get_cancer_sim_data is not running, and has not been called.
InitGen ==
  /\ InitSimulators
  /\ NotSampling
  /\ NotProjecting
  /\ rng = 0
  /\ gen_pc = "idle"
  /\ gen_args \in GenArgs
  /\ rng_at_call = <<>>
  /\ pickle_map = <<>>
  /\ returned_maps = <<>>

\* Lines 1005-1031: a call of get_cancer_sim_data, b_load false, in a process
\* whose generator is in state prior: _generate starts with
\* np.random.seed(seed).
GenCall ==
  /\ gen_pc = "idle"
  /\ Len(returned_maps) < 2
  /\ \E prior \in PriorStates :
       /\ rng_at_call' = Append(rng_at_call, prior)
       /\ rng' = np_random_seed(prior, gen_args.seed)
  /\ pickle_map' = <<>>
  /\ gen_pc' = "training_params"
  /\ UNCHANGED <<fn, pc, i, t, callVars, simArrays, rowVars, drawVars, factualVars,
                 outputs, gen_args, paramVars, projectionVars, returned_maps>>

\* Lines 1033-1038, 1041-1046, 1049-1054, 1062-1067: the parameters of the
\* next dataset.
GenParams ==
  /\ gen_pc \in DOMAIN GenAfterParams
  /\ simulation_params' =
       get_confounding_params(rng, gen_args.chemo_coeff, gen_args.radio_coeff,
                              gen_args.window_size)
  /\ rng' = RngSkip(rng, NumPatients)
  /\ gen_pc' = GenAfterParams[gen_pc]
  /\ UNCHANGED <<fn, pc, i, t, assigned_actions, treatment_options, simArrays, rowVars,
                 drawVars, factualVars, outputs, gen_args, paramVars, projectionVars,
                 rng_at_call, pickle_map,
                 returned_maps>>

\* Lines 1039, 1047, 1055: simulate(params, num_time_steps), its draws
\* (lines 330-337) taken from the generator.
GenSimulate ==
  /\ gen_pc \in {"training_data", "validation_data", "test_data_factuals"}
  /\ SimulateCall(simulation_params, NoAssignedActions,
       [j \in Patients |-> DrawNoise(RngSkip(rng, j), NumTimeSteps)],
       [j \in Patients |-> DrawRecovery(RngSkip(rng, NumPatients + j), NumTimeSteps)],
       [j \in Patients |-> DrawApplication(RngSkip(rng, 2 * NumPatients + j), NumTimeSteps)],
       [j \in Patients |-> DrawApplication(RngSkip(rng, 3 * NumPatients + j), NumTimeSteps)])
  /\ rng' = RngSkip(rng, 4 * NumPatients)
  /\ UNCHANGED <<gen_pc, gen_args, paramVars, projectionVars, rng_at_call, pickle_map,
                 returned_maps>>

\* Line 1057: simulate_counterfactual_test_data(params, num_time_steps) with
\* the parameters of the factual test data; line 463: np.random.seed(100).
GenCounterfactual ==
  /\ gen_pc = "test_data"
  /\ CounterfactualCall(simulation_params)
  /\ rng' = np_random_seed(rng, BranchingSeed)
  /\ UNCHANGED <<gen_pc, gen_args, paramVars, projectionVars, rng_at_call, pickle_map,
                 returned_maps>>

\* Lines 1082-1087: simulate_sequence_test(params, num_time_steps, 5,
\* treatment_options); line 711: np.random.seed(100).
GenSequence ==
  /\ gen_pc = "test_data_seq"
  /\ SequenceCall(simulation_params, OneHotOptions(ProjectionHorizon))
  /\ rng' = np_random_seed(rng, BranchingSeed)
  /\ UNCHANGED <<gen_pc, gen_args, paramVars, projectionVars, rng_at_call, pickle_map,
                 returned_maps>>

\* Lines 522-535 and 772-785: the draws of a patient of a branching
\* generator, taken from the generator.
GenBranchingPatient ==
  /\ gen_pc \in {"test_data", "test_data_seq"}
  /\ fn \in {"counterfactual", "sequence"}
  /\ BranchingPatient(
       DrawNoise(rng, IF fn = "sequence" THEN NumTimeSteps + NoiseExtra ELSE NumTimeSteps),
       DrawRecovery(RngNext(rng), NumTimeSteps),
       DrawApplication(RngSkip(rng, 2), NumTimeSteps),
       DrawApplication(RngSkip(rng, 3), NumTimeSteps))
  /\ rng' = RngSkip(rng, 4)
  /\ UNCHANGED <<gen_pc, gen_args, paramVars, projectionVars, rng_at_call, pickle_map,
                 returned_maps>>

\* The dictionary a simulator has returned becomes the entry of pickle_map
\* (lines 1095-1106).
GenStore ==
  /\ gen_pc \in GenDatasets
  /\ fn = "returned"
  /\ pickle_map' = pickle_map @@ (gen_pc :> outputs)
  /\ gen_pc' = GenAfterData[gen_pc]
  /\ fn' = "idle"
  /\ pc' = "idle"
  /\ outputs' = NoOutputs
  /\ UNCHANGED <<i, t, callVars, simArrays, rowVars, drawVars, factualVars, rng, gen_args,
                 paramVars, projectionVars, rng_at_call, returned_maps>>

\* Line 1092: scaling_data = get_scaling_params(training_data).
GenScaling ==
  /\ gen_pc = "scaling_data"
  /\ pickle_map' = pickle_map @@ ("scaling_data" :> get_scaling_params(pickle_map["training_data"]))
  /\ gen_pc' = "return"
  /\ UNCHANGED <<fn, pc, i, t, callVars, simArrays, rowVars, drawVars, factualVars,
                 outputs, rng, gen_args, paramVars, projectionVars, rng_at_call, returned_maps>>

\* Lines 1111-1129: pickle_map is returned to the caller.
GenReturn ==
  /\ gen_pc = "return"
  /\ returned_maps' = Append(returned_maps, pickle_map)
  /\ gen_pc' = "idle"
  /\ UNCHANGED <<fn, pc, i, t, callVars, simArrays, rowVars, drawVars, factualVars,
                 outputs, rng, gen_args, paramVars, projectionVars, rng_at_call, pickle_map>>

\* ----------------------------------------------------- get_standard_params
\* get_standard_params(num_patients), lines 104-269, called on its own with
\* num_patients = NumPatients.  alpha is in 1/1000 and rho in 1/100000, as in
\* the simulators.

\* parameter_lower_bound (line 176).
parameter_lower_bound == 0

\* A variant that tests alpha alone.
AcceptedAlphaOnly(draw) == draw[1] > parameter_lower_bound
\* Lines 210-213: a draw is kept when alpha and rho are both above the
\* lower bound.
Accepted(draw) == draw[1] > parameter_lower_bound /\ draw[2] > parameter_lower_bound

\* Lines 116-117 and 223, 232: alpha_params[0] * radio_mean_adjustments is
\* 0.0398 * 0.1 for a patient of type 1, beta_c_params[0] *
\* chemo_mean_adjustments is 0.028 * 0.1 for a patient of type 3, 0 otherwise.
AlphaAdjustment(type) == IF type > 1 THEN 0 ELSE 4
BetaCAdjustment(type) == IF type < 3 THEN 0 ELSE 3

\* The batches np.random.multivariate_normal(size=num_patients) can return
\* are taken from a small family: one without a draw to keep (alpha = 0 or
\* rho < 0), two with a draw to keep at every other place, and one of draws
\* to keep that are all different.
ParamBatches ==
  { [k \in Patients |-> IF k % 2 = 0 THEN <<0, 7>> ELSE <<40, -5>>],
    [k \in Patients |-> IF k % 2 = 0 THEN <<540, 3>> ELSE <<-100, 7>>],
    [k \in Patients |-> IF k % 2 = 0 THEN <<40, -5>> ELSE <<40, 7>>],
    [k \in Patients |-> <<100 * (k + 1), 10 * (k + 1)>>] }

\* np.random.choice(possible_patient_types, num_patients), line 115.
PatientTypeArrs == { [k \in Patients |-> 1 + ((k + a) % 3)] : a \in 0 .. 2 }

\* The initial volumes of lines 131-172, calc_volume of a diameter inside
\* the bounds of the patient's stage.
InitialVolumeArrs ==
  { [k \in Patients |-> IF (k + a) % 2 = 0 THEN 419 ELSE 114000] : a \in 0 .. 1 }

\* beta_c_params[0] + beta_c_params[1] * truncnorm.rvs(...), lines 233-241:
\* above the lower bound.
BetaCDraws == {27, 29}

\* The orders np.random.shuffle can leave idx in (line 263).
Shuffles == { f \in [Patients -> Patients] : \A a, b \in Patients : f[a] = f[b] => a = b }

\* The elements of a batch in draw order.
BatchSeq(holder) == [k \in 1 .. NumPatients |-> holder[k - 1]]

\* A variant that keeps the last num_patients rows.
ShortenedLast(params) ==
  [k \in Patients |-> params[Len(params) - NumPatients + k + 1]]
\* np.array(simulated_params)[:num_patients, :], line 220.
Shortened(params) == [k \in Patients |-> params[k + 1]]

\* Everything but the state of get_standard_params.
otherVars == <<fn, pc, i, t, callVars, simArrays, rowVars, drawVars, factualVars, outputs,
               rng, gen_pc, gen_args, projectionVars, rng_at_call, pickle_map,
               returned_maps>>

\* Lines 104-194: the patient types, the initial volumes and the empty list.
GspCall ==
  /\ params_pc = "idle"
  /\ \E types \in PatientTypeArrs, volumes \in InitialVolumeArrs :
       /\ patient_types' = types
       /\ initial_volumes' = volumes
  /\ simulated_params' = <<>>
  /\ draws' = <<>>
  /\ num_batches' = 0
  /\ params_pc' = "while"
  /\ UNCHANGED <<param_holder, holder_i, idx, output_params, otherVars>>

\* Lines 196-204: the list is short of num_patients, one more batch of
\* num_patients draws is made.
GspBatch ==
  /\ params_pc = "while"
  /\ Len(simulated_params) < NumPatients
  /\ num_batches < MaxBatches
  /\ \E holder \in ParamBatches :
       /\ param_holder' = holder
       /\ draws' = draws \o BatchSeq(holder)
  /\ holder_i' = 0
  /\ num_batches' = num_batches + 1
  /\ params_pc' = "for"
  /\ UNCHANGED <<patient_types, initial_volumes, simulated_params, idx, output_params,
                 otherVars>>

\* Lines 207-214: one element of the batch is looked at, and appended to the
\* list if it is accepted.
GspCheck ==
  /\ params_pc = "for"
  /\ simulated_params' =
       IF Accepted(param_holder[holder_i])
         THEN Append(simulated_params, param_holder[holder_i])
         ELSE simulated_params
  /\ holder_i' = holder_i + 1
  /\ params_pc' = IF holder_i + 1 < NumPatients THEN "for" ELSE "while"
  /\ UNCHANGED <<patient_types, initial_volumes, param_holder, num_batches, draws, idx,
                 output_params, otherVars>>

\* Lines 220-269: the list is cut to num_patients rows, the adjustments of
\* the patient types are added, beta_c is drawn, and every array is returned
\* in the one shuffled order idx.
GspReturn ==
  /\ params_pc = "while"
  /\ Len(simulated_params) >= NumPatients
  /\ \E order \in Shuffles, beta_c_draw \in BetaCDraws :
       LET kept == Shortened(simulated_params)
           alpha == [k \in Patients |-> kept[k][1] + AlphaAdjustment(patient_types[k])]
           rho == [k \in Patients |-> kept[k][2]]
           beta == [k \in Patients |-> alpha[k] \div 10]
           beta_c == [k \in Patients |-> beta_c_draw + BetaCAdjustment(patient_types[k])]
       IN /\ idx' = order
          /\ output_params' =
               [ patient_types |-> [k \in Patients |-> patient_types[order[k]]],
                 initial_volumes |-> [k \in Patients |-> initial_volumes[order[k]]],
                 alpha |-> [k \in Patients |-> alpha[order[k]]],
                 rho |-> [k \in Patients |-> rho[order[k]]],
                 beta |-> [k \in Patients |-> beta[order[k]]],
                 beta_c |-> [k \in Patients |-> beta_c[order[k]]],
                 K |-> [k \in Patients |-> CarryingCapacity] ]
  /\ params_pc' = "done"
  /\ UNCHANGED <<patient_types, initial_volumes, simulated_params, param_holder, holder_i,
                 num_batches, draws, otherVars>>

NextParams ==
  \/ GspCall
  \/ GspBatch
  \/ GspCheck
  \/ GspReturn

\* get_standard_params called on its own.
SpecParams == Init /\ [][NextParams]_vars

\* ----------------------------------- simulate_sequence_test: the indices
\* The loops of simulate_sequence_test for one patient, reduced to the
\* lengths of the arrays and to the indices read and written, for any
\* num_time_steps and projection_horizon the caller passes.
simulatorVars == <<fn, pc, i, t, callVars, simArrays, rowVars, drawVars, factualVars, outputs,
                   rng, gen_pc, gen_args, paramVars, rng_at_call, pickle_map, returned_maps>>

\* Line 772: noise = 0.01 * np.random.randn(num_time_steps + 20)
NoiseLength == num_time_steps + NoiseExtra
\* Lines 752, 862-864: the columns of an output row and the length of the
\* counterfactual_cancer_volume of decision time d.
RowLength == num_time_steps + projection_horizon
BranchLength(d) == d + 1 + projection_horizon + 1

\* Lines 696-795: the call, up to the first decision time.
ProjectionCall ==
  /\ projection_pc = "idle"
  /\ \E n \in 2 .. NumTimeSteps, h \in 1 .. NoiseExtra + ProjectionHorizon :
       /\ num_time_steps' = n
       /\ projection_horizon' = h
  /\ decision_t' = 0
  /\ projection_pc' = "branch"
  /\ UNCHANGED <<projection_step, noise_index, volume_index, simulatorVars>>

\* Lines 860-886: the arrays of a branch; counterfactual_cancer_volume takes
\* the factual volumes [: t + 2].
ProjectionBranch ==
  /\ projection_pc = "branch"
  /\ projection_step' = 0
  /\ volume_index' = decision_t + 1
  /\ projection_pc' = "project"
  /\ UNCHANGED <<num_time_steps, projection_horizon, decision_t, noise_index, simulatorVars>>

\* Lines 888-923: one projected step: noise[current_t + 1] is read and
\* counterfactual_cancer_volume[current_t + 1] written; an index beyond the
\* end of an array raises IndexError.
ProjectionStep ==
  /\ projection_pc = "project"
  /\ projection_step < projection_horizon
  /\ LET current_t == decision_t + 1 + projection_step
     IN /\ noise_index' = ProjectionNoiseIndex(current_t)
        /\ IF ProjectionNoiseIndex(current_t) >= NoiseLength
                \/ current_t + 1 >= BranchLength(decision_t)
             THEN /\ projection_pc' = "IndexError"
                  /\ UNCHANGED <<projection_step, volume_index>>
             ELSE /\ volume_index' = current_t + 1
                  /\ projection_step' = projection_step + 1
                  /\ projection_pc' = "project"
  /\ UNCHANGED <<num_time_steps, projection_horizon, decision_t, simulatorVars>>

\* Lines 925-947: the projected volumes are stored in the row, [: t + 1 +
\* projection_horizon + 1] (a slice shorter than the branch raises
\* ValueError); then the next decision time, unless the loop is left by the
\* break or after decision time num_time_steps - 2.
ProjectionStore ==
  /\ projection_pc = "project"
  /\ projection_step >= projection_horizon
  /\ IF Min(BranchLength(decision_t), RowLength) # BranchLength(decision_t)
       THEN projection_pc' = "ValueError" /\ decision_t' = decision_t
       ELSE \/ /\ decision_t + 1 < num_time_steps - 1
               /\ decision_t' = decision_t + 1
               /\ projection_pc' = "branch"
            \/ /\ decision_t' = decision_t
               /\ projection_pc' = "done"
  /\ UNCHANGED <<num_time_steps, projection_horizon, projection_step, noise_index,
                 volume_index, simulatorVars>>

NextProjection ==
  \/ ProjectionCall
  \/ ProjectionBranch
  \/ ProjectionStep
  \/ ProjectionStore

SpecProjection == Init /\ [][NextProjection]_vars

Next ==
  \/ SimulateEnter
  \/ SimulatePatient
  \/ SimulateStep
  \/ SimulatePackage
  \/ SimulateReturn
  \/ CounterfactualEnter
  \/ CounterfactualPatient
  \/ CounterfactualStep
  \/ CounterfactualReturn
  \/ SequenceEnter
  \/ SequencePatient
  \/ SequenceStep
  \/ SequenceReturn

Spec == Init /\ [][Next]_vars

\* simulate_sequence_test on its own, called with the longer list.
NextMany ==
  \/ SequenceEnterMany
  \/ SequencePatient
  \/ SequenceStep
  \/ SequenceReturn

SpecMany == Init /\ [][NextMany]_vars

\* get_cancer_sim_data called twice in one process with the same arguments;
\* the simulators run as in Spec, with their draws taken from the generator.
NextGen ==
  \/ GenCall
  \/ GenParams
  \/ GenSimulate
  \/ SimulatePatient
  \/ SimulateStep
  \/ SimulatePackage
  \/ SimulateReturn
  \/ GenCounterfactual
  \/ GenSequence
  \/ GenBranchingPatient
  \/ CounterfactualStep
  \/ CounterfactualReturn
  \/ SequenceStep
  \/ SequenceReturn
  \/ GenStore
  \/ GenScaling
  \/ GenReturn

SpecGen == InitGen /\ [][NextGen]_vars


\* ---------------------------------------------------------- the properties
\* The function whose arrays the state holds.
Mode == IF fn = "returned" THEN outputs.of ELSE fn

\* In a branching generator: the patient whose factual arrays the state
\* holds, and the number of decision times of that patient whose rows have
\* been written.
CurPatient == IF pc = "step" THEN i ELSE i - 1
StepsDone == IF pc = "step" THEN t ELSE IF i = 0 THEN 0 ELSE t + 1

\* The factual arrays as decision time d read them.
FactualAt(d) ==
  [ previous_chemo_dose |-> IF d = 0 THEN 0 ELSE factual_chemo_dosage[d - 1],
    cancer_volume |-> factual_cancer_volume,
    chemo_dosage |-> factual_chemo_dosage,
    radio_dosage |-> factual_radio_dosage,
    chemo_application_point |-> factual_chemo_application_point,
    radio_application_point |-> factual_radio_application_point ]

\* simulate_counterfactual_test_data writes num_treatments rows at every
\* decision time, the factual row first: the first row of decision time d of
\* the current patient.
GroupStart(d) == test_idx - num_treatments * (StepsDone - d)
BranchOffsets == 1 .. num_treatments - 1

\* In simulate: the number of iterations of the time loop made for patient j.
SimulateStepsDone(j) ==
  IF j < i THEN sequence_lengths[j]
  ELSE IF j > i \/ pc = "patient" THEN 0
  ELSE IF pc = "step" THEN t
  ELSE t + 1

RowZeroFrom(row, n) == \A k \in DOMAIN row : k >= n => row[k] = 0
AllNumbers(row) == \A values \in {row} : \A k \in DOMAIN values : ~IsNaN(values[k])

\* C1: in simulate_counterfactual_test_data, every counterfactual row written
\* at decision time d of a patient holds, at the indices 0..d, the patient's
\* factual volumes; the same holds of the rows of the patients before, whose
\* factual volumes are those of the factual row written with them.
C1_BranchPrefixIsFactual ==
  Mode = "counterfactual" =>
    /\ \A d \in 0 .. StepsDone - 1 : \A m \in BranchOffsets : \A k \in 0 .. d :
         cancer_volume[GroupStart(d) + m][k] = factual_cancer_volume[k]
    /\ \A r \in 0 .. test_idx - 1 :
         LET g == r - (r % num_treatments)
         IN \A k \in 0 .. sequence_lengths[g] - 1 : cancer_volume[r][k] = cancer_volume[g][k]

\* A patient with two decision times, whose factual volume changed from
\* step 0 to step 1, and a row of decision time 1 that leaves the factual
\* path at index 2.
C1_Witness ==
  /\ Mode = "counterfactual"
  /\ StepsDone >= 2
  /\ factual_cancer_volume[0] # factual_cancer_volume[1]
  /\ \E m \in BranchOffsets : cancer_volume[GroupStart(1) + m][2] # factual_cancer_volume[2]

\* The chemo dosage of index c of row r of simulate_sequence_test, a row of
\* decision time d: factual up to d, then decayed and raised by the row's
\* applications.
RECURSIVE BranchDosage(_, _, _)
BranchDosage(r, d, c) ==
  IF c <= d THEN factual_chemo_dosage[c]
  ELSE BranchDosage(r, d, c - 1) \div 2 + chemo_application_point[r][c] * chemo_amt * DoseScale

\* C2: in both branching generators the volume of index k of a patient is
\* made with element k of the one noise array the patient has: the factual
\* volume, the counterfactual volume of every row of
\* simulate_counterfactual_test_data, and every projected volume of every row
\* of simulate_sequence_test, at every decision time so far.
C2_BranchesShareNoise ==
  /\ Mode \in {"counterfactual", "sequence"} =>
       \A d \in 0 .. StepsDone - 1 :
         factual_cancer_volume[d + 1] =
           Clip(NextVolume(factual_cancer_volume[d], Patient(CurPatient),
                           factual_chemo_dosage[d], factual_radio_dosage[d], noise[d + 1]),
                0, tumour_death_threshold)
  /\ Mode = "counterfactual" =>
       \A d \in 0 .. StepsDone - 1 : \A m \in BranchOffsets :
         LET r == GroupStart(d) + m
             dosage == FactualAt(d).previous_chemo_dose \div 2
                         + chemo_application_point[r][d] * chemo_amt * DoseScale
         IN cancer_volume[r][d + 1] =
              NextVolume(factual_cancer_volume[d], Patient(CurPatient), dosage,
                         radio_application_point[r][d] * radio_amt, noise[d + 1])
  /\ Mode = "sequence" =>
       \A r \in 0 .. test_idx - 1 :
         patient_ids_all_trajectories[r] = CurPatient =>
           LET d == patient_current_t[r]
           IN \A k \in d + 2 .. d + 1 + ProjectionHorizon :
                cancer_volume[r][k] =
                  NextVolumeProjected(cancer_volume[r][k - 1], Patient(CurPatient),
                                      BranchDosage(r, d, k - 1),
                                      radio_application_point[r][k - 1] * radio_amt,
                                      noise[k])

\* A row of decision time 1 of simulate_sequence_test whose projected volumes
\* are all positive.
C2_Witness ==
  /\ Mode = "sequence"
  /\ StepsDone >= 2
  /\ \E r \in 0 .. test_idx - 1 :
       /\ patient_ids_all_trajectories[r] = CurPatient
       /\ patient_current_t[r] = 1
       /\ \A k \in 3 .. 2 + ProjectionHorizon : cancer_volume[r][k] > 0

\* C3: every volume of every returned dataset is at least 0 and at most
\* tumour_death_threshold.
C3_VolumesClamped ==
  outputs.returned =>
    \A r \in DOMAIN outputs.cancer_volume : \A k \in DOMAIN outputs.cancer_volume[r] :
      /\ 0 <= outputs.cancer_volume[r][k]
      /\ outputs.cancer_volume[r][k] <= tumour_death_threshold

\* C4 as stated: in every returned row, every array is zero from index
\* sequence_lengths[row] on.
C4_ZeroFromSequenceLength ==
  outputs.returned =>
    \A r \in DOMAIN outputs.sequence_lengths :
      LET n == outputs.sequence_lengths[r]
      IN /\ RowZeroFrom(outputs.cancer_volume[r], n)
         /\ RowZeroFrom(outputs.chemo_application[r], n)
         /\ RowZeroFrom(outputs.radio_application[r], n)
         /\ outputs.of = "simulate" =>
              /\ RowZeroFrom(outputs.chemo_dosage[r], n)
              /\ RowZeroFrom(outputs.radio_dosage[r], n)
              /\ RowZeroFrom(outputs.chemo_probabilities[r], n)
              /\ RowZeroFrom(outputs.radio_probabilities[r], n)

\* C4: in every row returned by simulate and by
\* simulate_counterfactual_test_data, the dosage, application and probability
\* arrays are zero from index sequence_lengths[row] on and cancer_volume is
\* zero from index sequence_lengths[row] + 1 on; in every row returned by
\* simulate_sequence_test the application arrays are zero from index
\* sequence_lengths[row] + projection_horizon - 1 on and cancer_volume from
\* index sequence_lengths[row] + projection_horizon on.
C4_ZeroBeyondWritten ==
  outputs.returned =>
    \A r \in DOMAIN outputs.sequence_lengths :
      LET projected == IF outputs.of = "sequence" THEN ProjectionHorizon - 1 ELSE 0
          n == outputs.sequence_lengths[r] + projected
      IN /\ RowZeroFrom(outputs.cancer_volume[r], n + 1)
         /\ RowZeroFrom(outputs.chemo_application[r], n)
         /\ RowZeroFrom(outputs.radio_application[r], n)
         /\ outputs.of = "simulate" =>
              /\ RowZeroFrom(outputs.chemo_dosage[r], n)
              /\ RowZeroFrom(outputs.radio_dosage[r], n)
              /\ RowZeroFrom(outputs.chemo_probabilities[r], n)
              /\ RowZeroFrom(outputs.radio_probabilities[r], n)

\* A returned row of simulate_sequence_test whose last projected step, at
\* index sequence_length + projection_horizon - 2, has a radio application
\* and a volume after it.
C4_Witness ==
  /\ outputs.returned
  /\ outputs.of = "sequence"
  /\ \E r \in DOMAIN outputs.sequence_lengths :
       LET n == outputs.sequence_lengths[r] + ProjectionHorizon - 1
       IN /\ outputs.radio_application[r][n - 1] = 1
          /\ outputs.cancer_volume[r][n] # 0

\* In simulate: patient j is not advanced beyond iteration s of the time
\* loop, and nothing is written after what iteration s wrote.
SimulateStopped(j, s) ==
  /\ SimulateStepsDone(j) = s + 1
  /\ j = i => pc # "step"
  /\ RowZeroFrom(cancer_volume[j], s + 2)
  /\ RowZeroFrom(chemo_dosage[j], s + 1)
  /\ RowZeroFrom(radio_dosage[j], s + 1)
  /\ RowZeroFrom(chemo_application_point[j], s + 1)
  /\ RowZeroFrom(radio_application_point[j], s + 1)
  /\ RowZeroFrom(chemo_probabilities[j], s + 1)
  /\ RowZeroFrom(radio_probabilities[j], s + 1)

\* C5: in simulate, at every iteration s made for a patient: a computed
\* volume above tumour_death_threshold is stored as tumour_death_threshold
\* and the patient is stopped, whatever the recovery draw; otherwise a
\* recovery draw below the recovery probability stores 0 and stops the
\* patient; otherwise the computed volume is stored.  A stopped patient has
\* no further iteration and no entry written after the stored volume, in
\* this state and every later one.
C5_DeathAndRecoveryAbsorb ==
  Mode = "simulate" =>
    \A j \in Patients : \A s \in 0 .. SimulateStepsDone(j) - 1 :
      LET computed == NextVolume(cancer_volume[j][s], Patient(j), chemo_dosage[j][s],
                                 radio_dosage[j][s], noise_terms[j][s])
          dead == FGreater(computed, tumour_death_threshold)
          recovered == /\ ~dead
                       /\ FLess(recovery_rvs[j][s + 1], RecoveryProbability(computed))
      IN /\ dead => cancer_volume[j][s + 1] = tumour_death_threshold /\ SimulateStopped(j, s)
         /\ recovered => cancer_volume[j][s + 1] = 0 /\ SimulateStopped(j, s)
         /\ (~dead /\ ~recovered) => cancer_volume[j][s + 1] = computed

\* simulate has returned; one patient died and another one recovered, both
\* before the last time step.
C5_Witness ==
  /\ outputs.returned
  /\ outputs.of = "simulate"
  /\ \E j \in Patients :
       /\ sequence_lengths[j] < NumTimeSteps - 1
       /\ cancer_volume[j][sequence_lengths[j]] = tumour_death_threshold
  /\ \E j \in Patients :
       /\ sequence_lengths[j] < NumTimeSteps - 1
       /\ cancer_volume[j][sequence_lengths[j]] = 0

\* C6: two calls of get_cancer_sim_data with the same seed, coefficients and
\* window size return the same five datasets, whatever state the generator
\* was in at either call.
C6_SameSeedSameData ==
  Len(returned_maps) = 2 =>
    \A k \in GenDatasets : returned_maps[1][k] = returned_maps[2][k]

\* Two calls have returned, made in different states of the generator, and
\* the sequence test data of the second has rows.
C6_Witness ==
  /\ Len(returned_maps) = 2
  /\ rng_at_call[1] # rng_at_call[2]
  /\ DOMAIN returned_maps[2]["test_data_seq"].cancer_volume # {}
  /\ DOMAIN returned_maps[2]["test_data"].cancer_volume # {}

\* C7 as stated: every counterfactual row of decision time d is stored with
\* sequence length d + 2.
C7_SequenceLengthCoversBranch ==
  Mode = "counterfactual" =>
    \A d \in 0 .. StepsDone - 1 : \A m \in BranchOffsets :
      sequence_lengths[GroupStart(d) + m] = d + 2

\* C7: every counterfactual row of decision time d is stored with sequence
\* length d + 1: its counterfactual volume, at index d + 1, is the entry at
\* index sequence_length, the last one written.
C7_SequenceLengthIsBranchIndex ==
  Mode = "counterfactual" =>
    \A d \in 0 .. StepsDone - 1 : \A m \in BranchOffsets :
      LET r == GroupStart(d) + m
      IN /\ sequence_lengths[r] = d + 1
         /\ RowZeroFrom(cancer_volume[r], sequence_lengths[r] + 1)

\* A counterfactual row of decision time 1 with a volume at index 2.
C7_Witness ==
  /\ Mode = "counterfactual"
  /\ StepsDone >= 2
  /\ \E m \in BranchOffsets :
       /\ sequence_lengths[GroupStart(1) + m] = 2
       /\ cancer_volume[GroupStart(1) + m][2] # 0

\* In simulate_sequence_test: the volumes of action sequence k projected from
\* decision time d of the current patient, the action sequences of d whose
\* volumes are all numbers, in order.
ProjectedVolumes(d, k) ==
  Project(CurPatient, d, BranchStart(d, FactualAt(d)), treatment_options[k], 0).cancer_volume

RECURSIVE KeptFrom(_, _)
KeptFrom(d, k) ==
  IF k > Len(treatment_options) THEN <<>>
  ELSE (IF AllNumbers(ProjectedVolumes(d, k)) THEN <<k>> ELSE <<>>) \o KeptFrom(d, k + 1)

\* The rows written for decision time d of the current patient.
RowsOfDecision(d) ==
  {r \in 0 .. test_idx - 1 :
     patient_ids_all_trajectories[r] = CurPatient /\ patient_current_t[r] = d}

C9_ReturnedRowsAreWrittenRows ==
  (outputs.returned /\ outputs.of \in {"counterfactual", "sequence"}) =>
    LET written == {r \in DOMAIN sequence_lengths :
                      sequence_lengths[r] # 0 \/ cancer_volume[r][0] # 0}
    IN /\ DOMAIN outputs.cancer_volume = written
       /\ DOMAIN outputs.chemo_application = written
       /\ DOMAIN outputs.radio_application = written
       /\ DOMAIN outputs.sequence_lengths = written
       /\ DOMAIN outputs.patient_types = written
       /\ \A r \in written :
            /\ outputs.cancer_volume[r] = cancer_volume[r]
            /\ outputs.chemo_application[r] = chemo_application_point[r]
            /\ outputs.radio_application[r] = radio_application_point[r]
            /\ outputs.sequence_lengths[r] = sequence_lengths[r]
            /\ outputs.cancer_volume[r][0] # 0
            /\ outputs.sequence_lengths[r] >= 1

\* simulate_sequence_test has returned fewer rows than its buffers have,
\* after a patient that stopped before the last time step and had an action
\* sequence skipped.
C9_Witness ==
  /\ outputs.returned
  /\ outputs.of = "sequence"
  /\ Cardinality(DOMAIN outputs.cancer_volume) < SequenceNumTestPoints
  /\ StepsDone < NumTimeSteps - 1
  /\ \E d \in 0 .. StepsDone - 1 : Len(KeptFrom(d, 1)) < Len(treatment_options)

\* C10: in simulate, at every iteration s made for a patient: an application
\* at s makes the dosage of s the half of the dosage of s - 1 plus 5.0; and
\* when no chemo is applied at s + 1, ..., s + k (k = 1, 2, 3, iterations
\* made), the dosage of s + k is the dosage of s divided by 2^k.
C10_DosageHalves ==
  Mode = "simulate" =>
    \A j \in Patients : \A s \in 0 .. SimulateStepsDone(j) - 1 :
      /\ chemo_application_point[j][s] = 1 =>
           2 * chemo_dosage[j][s] =
             (IF s = 0 THEN 0 ELSE chemo_dosage[j][s - 1]) + 2 * chemo_amt * DoseScale
      /\ \A k \in 1 .. 3 :
           ( /\ s + k <= SimulateStepsDone(j) - 1
             /\ \A u \in s + 1 .. s + k : chemo_application_point[j][u] = 0 )
           => Pow2(k) * chemo_dosage[j][s + k] = chemo_dosage[j][s]

\* A patient with chemo at step 0 and none at steps 1, 2 and 3: the dosage
\* of step 3 is an eighth of 5.0.
C10_Witness ==
  /\ Mode = "simulate"
  /\ \E j \in Patients :
       /\ SimulateStepsDone(j) >= 4
       /\ chemo_application_point[j][0] = 1
       /\ \A u \in 1 .. 3 : chemo_application_point[j][u] = 0
       /\ chemo_dosage[j][0] = chemo_amt * DoseScale
       /\ 8 * chemo_dosage[j][3] = chemo_amt * DoseScale

\* The call was made with the parameters of chemo_coeff = radio_coeff = 0:
\* every sigmoid slope is 0.
ZeroCoeff ==
  \A j \in Patients :
    /\ simulation_params.chemo_sigmoid_betas[j] = 0
    /\ simulation_params.radio_sigmoid_betas[j] = 0

\* ---------------------------------------------------------------------- C11
\* C11 as stated: in a call of simulate made with chemo_coeff = radio_coeff =
\* 0 (all sigmoid slopes 0), the chemo and the radio probability recorded at
\* every iteration made for every patient is 0.5.
C11_HalfAtZeroCoeff ==
  (Mode = "simulate" /\ ZeroCoeff) =>
    \A j \in Patients : \A s \in 0 .. SimulateStepsDone(j) - 1 :
      /\ chemo_probabilities[j][s] = MilliOne \div 2
      /\ radio_probabilities[j][s] = MilliOne \div 2

\* C11 for the calls that leave the policy in charge: with chemo_coeff =
\* radio_coeff = 0 and assigned_actions None, the chemo and the radio
\* probability recorded at every iteration made for every patient is 0.5,
\* whatever the patient's volumes are.
C11_HalfAtZeroCoeffPolicy ==
  (Mode = "simulate" /\ ZeroCoeff /\ ~assigned_actions.given) =>
    \A j \in Patients : \A s \in 0 .. SimulateStepsDone(j) - 1 :
      /\ chemo_probabilities[j][s] = MilliOne \div 2
      /\ radio_probabilities[j][s] = MilliOne \div 2

\* simulate has returned from a call with zero coefficients and no assigned
\* actions, made for two tumours of different sizes, one of them with three
\* iterations over changing volumes.
C11_Witness ==
  /\ outputs.returned
  /\ outputs.of = "simulate"
  /\ ZeroCoeff
  /\ ~assigned_actions.given
  /\ \E j, k \in Patients :
       /\ cancer_volume[j][0] # cancer_volume[k][0]
       /\ sequence_lengths[j] >= 3
       /\ cancer_volume[j][1] # cancer_volume[j][0]
       /\ cancer_volume[j][2] # cancer_volume[j][1]
       /\ chemo_probabilities[j][2] = MilliOne \div 2
       /\ radio_probabilities[k][0] = MilliOne \div 2

\* ---------------------------------------------------------------------- C12
\* The draws of the call that were accepted, in draw order.
AcceptedDraws == SelectSeq(draws, Accepted)

\* C12: get_standard_params returns num_patients patients; they are the
\* first num_patients accepted draws of the call, counted in draw order over
\* all its batches, each returned once, at the place idx gives it, with its
\* rho as drawn and its alpha as drawn plus the adjustment of the patient's
\* type; and every returned alpha and rho is above 0.
C12_FirstAcceptedDrawsReturned ==
  params_pc = "done" =>
    /\ DOMAIN output_params.alpha = Patients
    /\ DOMAIN output_params.rho = Patients
    /\ Len(AcceptedDraws) >= NumPatients
    /\ \A a, b \in Patients : idx[a] = idx[b] => a = b
    /\ \A k \in Patients :
         /\ idx[k] \in Patients
         /\ output_params.rho[k] = AcceptedDraws[idx[k] + 1][2]
         /\ output_params.alpha[k] =
              AcceptedDraws[idx[k] + 1][1] + AlphaAdjustment(output_params.patient_types[k])
         /\ output_params.patient_types[k] = patient_types[idx[k]]
         /\ output_params.alpha[k] > 0
         /\ output_params.rho[k] > 0

\* A call that returned after a batch without an accepted draw and two more
\* batches, with more accepted draws than patients, a draw rejected for its
\* rho alone, two different patients, one of type 1, in a shuffled order.
C12_Witness ==
  /\ params_pc = "done"
  /\ num_batches >= 3
  /\ Len(AcceptedDraws) > NumPatients
  /\ \E k \in 1 .. NumPatients : ~Accepted(draws[k])
  /\ \E k \in DOMAIN draws : draws[k][1] > 0 /\ draws[k][2] <= 0
  /\ AcceptedDraws[1] # AcceptedDraws[2]
  /\ \E k \in Patients : idx[k] # k
  /\ \E k \in Patients : output_params.patient_types[k] = 1

\* ---------------------------------------------------------------------- C13
\* The number of batches after which a call that has not reached
\* num_patients accepted draws would have to give up.
SamplingBatchLimit == MaxBatches - 1

\* C13: a call of get_standard_params that has not reached num_patients
\* accepted draws within SamplingBatchLimit batches stops with an error: it
\* never draws a batch beyond the limit.
C13_SamplingStopsAtLimit ==
  num_batches <= SamplingBatchLimit

\* ---------------------------------------------------------------------- C14
\* The treatment_options of the call hold an action sequence whose length is
\* not projection_horizon.
MalformedOptions ==
  \E k \in DOMAIN treatment_options : Len(treatment_options[k]) # ProjectionHorizon

\* C14: a call of simulate_sequence_test with an action sequence whose
\* length differs from projection_horizon is rejected at entry, before any
\* output row is written.
C14_MalformedOptionsRejected ==
  (Mode = "sequence" /\ MalformedOptions) => test_idx = 0

\* ---------------------------------------------------------------------- C15
\* The mean diameter of the min(window_size, s + 1) volumes of a row that end
\* at and include index s.
MeanOfLast(row, s, window_size) ==
  LET n == Min(window_size, s + 1)
      total == SumDiameters(row, s - n + 1, s)
  IN IF IsNaN(total) THEN NaN ELSE total \div n

\* C15: in simulate under the policy, the probabilities recorded at
\* iteration s of a patient are those of the mean diameter over the
\* min(window_size, s + 1) volumes that end at and include step s.
C15_MetricOverWindowSize ==
  (Mode = "simulate" /\ ~assigned_actions.given /\ simulation_params.window_size >= 1) =>
    \A j \in Patients : \A s \in 0 .. SimulateStepsDone(j) - 1 :
      \A metric \in {MeanOfLast(cancer_volume[j], s, simulation_params.window_size)} :
        /\ chemo_probabilities[j][s] =
             TreatmentProbability(simulation_params.chemo_sigmoid_betas[j],
                                  simulation_params.chemo_sigmoid_intercepts[j], metric)
        /\ radio_probabilities[j][s] =
             TreatmentProbability(simulation_params.radio_sigmoid_betas[j],
                                  simulation_params.radio_sigmoid_intercepts[j], metric)

\* ---------------------------------------------------------------------- C16
\* C16: in both branching generators, the probabilities of every decision
\* time d of a patient are those of the policy applied to the patient's own
\* factual volumes of the steps max(d - window_size, 0) .. d, as in simulate.
C16_PolicyReadsFactualVolumes ==
  Mode \in {"counterfactual", "sequence"} =>
    \A d \in 0 .. StepsDone - 1 :
      \A metric \in {CancerMetricUsed(factual_cancer_volume, d, simulation_params.window_size)} :
        /\ factual_chemo_probabilities[d] =
             TreatmentProbability(simulation_params.chemo_sigmoid_betas[CurPatient],
                                  simulation_params.chemo_sigmoid_intercepts[CurPatient],
                                  metric)
        /\ factual_radio_probabilities[d] =
             TreatmentProbability(simulation_params.radio_sigmoid_betas[CurPatient],
                                  simulation_params.radio_sigmoid_intercepts[CurPatient],
                                  metric)

\* ---------------------------------------------------------------------- C17
\* The (chemo, radio) applications of row r at index d.
ActionAt(r, d) == <<chemo_application_point[r][d], radio_application_point[r][d]>>

\* C17: simulate_counterfactual_test_data writes its rows in groups of
\* num_treatments = 4, one group a decision time: the factual row and exactly
\* 3 counterfactual rows.  At the index d of the decision time the actions
\* of the four rows are the four combinations of 0 and 1, each once, so the
\* three counterfactual ones differ from each other and from the factual
\* one; below d the counterfactual rows hold the actions of the factual row.
\* The first row of every group of the current patient holds the patient's
\* factual actions, and the patient has one group for each decision time.
C17_ThreeAlternativesPerDecision ==
  Mode = "counterfactual" =>
    /\ test_idx % num_treatments = 0
    /\ \A r \in 0 .. test_idx - 1 :
         r % num_treatments = 0 =>
           \A d \in {sequence_lengths[r] - 1} :
             /\ d >= 0
             /\ \A m \in BranchOffsets : sequence_lengths[r + m] = d + 1
             /\ {ActionAt(r + m, d) : m \in 0 .. num_treatments - 1}
                  = {<<0, 0>>, <<0, 1>>, <<1, 0>>, <<1, 1>>}
             /\ \A m \in BranchOffsets : \A k \in 0 .. d - 1 :
                  ActionAt(r + m, k) = ActionAt(r, k)
    /\ \A d \in 0 .. StepsDone - 1 :
         /\ GroupStart(d) >= 0
         /\ sequence_lengths[GroupStart(d)] = d + 1
         /\ \A k \in 0 .. d :
              ActionAt(GroupStart(d), k) =
                <<factual_chemo_application_point[k], factual_radio_application_point[k]>>
    /\ (CurPatient = 0 /\ StepsDone > 0) => GroupStart(0) = 0

\* The second patient has three decision times behind it, with different
\* factual actions at the first two.
C17_Witness ==
  /\ Mode = "counterfactual"
  /\ CurPatient = 1
  /\ StepsDone >= 3
  /\ ActionAt(GroupStart(0), 0) # ActionAt(GroupStart(1), 1)
  /\ ActionAt(GroupStart(1) + 1, 0) = ActionAt(GroupStart(0), 0)

\* ---------------------------------------------------------------------- C18
\* Row q was written before row r by an earlier patient, or by the same
\* patient at a decision time that is not later.
WrittenInOrder(q, r) ==
  \/ patient_ids_all_trajectories[q] < patient_ids_all_trajectories[r]
  \/ /\ patient_ids_all_trajectories[q] = patient_ids_all_trajectories[r]
     /\ patient_current_t[q] <= patient_current_t[r]

\* C18: every row written by simulate_sequence_test records a patient that
\* has been started, that patient's type and one of the patient's decision
\* times, in the order of the patients and decision times.  A row of
\* decision time d of the current patient holds the factual applications at
\* the indices 0..d; the n-th row of d holds, at index d + 1 + p, pair p of
\* the n-th action sequence of treatment_options that was not skipped, for p
\* = 0..projection_horizon - 1; and its projected volumes are those of the
\* chemo dosage that starts from the factual dosage of d and is halved, and
\* raised by 5.0 on an application, at every projected step.
C18_SequenceRowCarriesPrefixAndActions ==
  Mode = "sequence" =>
    /\ \A r \in 0 .. test_idx - 1 :
         /\ patient_ids_all_trajectories[r] \in 0 .. CurPatient
         /\ patient_current_t[r] \in 0 .. NumTimeSteps - 2
         /\ patient_types_all_trajectories[r] =
              simulation_params.patient_types[patient_ids_all_trajectories[r]]
         /\ r > 0 => WrittenInOrder(r - 1, r)
         /\ patient_ids_all_trajectories[r] = CurPatient =>
              \A d \in {patient_current_t[r]} :
                /\ d < StepsDone
                /\ \A k \in 0 .. d :
                     ActionAt(r, k) = <<factual_chemo_application_point[k],
                                        factual_radio_application_point[k]>>
                /\ \A k \in d + 2 .. d + 1 + ProjectionHorizon :
                     cancer_volume[r][k] =
                       NextVolumeProjected(cancer_volume[r][k - 1], Patient(CurPatient),
                                           BranchDosage(r, d, k - 1),
                                           radio_application_point[r][k - 1] * radio_amt,
                                           noise[k])
    /\ \A d \in 0 .. StepsDone - 1 :
         \A kept \in {KeptFrom(d, 1)} : \A rows \in {RowsOfDecision(d)} :
           /\ Cardinality(rows) = Len(kept)
           /\ \A base \in {r \in rows : \A q \in rows : r <= q} :
                \A n \in 1 .. Len(kept) : \A p \in 0 .. ProjectionHorizon - 1 :
                  ActionAt(base + n - 1, d + 1 + p) =
                    <<treatment_options[kept[n]][p + 1][1], treatment_options[kept[n]][p + 1][2]>>

\* A row of decision time 1 of the second patient, after a factual chemo
\* application, whose action sequence applies chemo at its second step: the
\* dosage of that step is 5.0 plus a quarter of the factual dosage of step 1.
C18_Witness ==
  /\ Mode = "sequence"
  /\ CurPatient = 1
  /\ \E r \in 0 .. test_idx - 1 :
       /\ patient_ids_all_trajectories[r] = 1
       /\ patient_current_t[r] = 1
       /\ factual_chemo_dosage[1] > 0
       /\ \E k \in 0 .. 1 : chemo_application_point[r][k] = 1
       /\ ActionAt(r, 2) = <<0, 0>>
       /\ ActionAt(r, 3) = <<1, 0>>
       /\ 4 * BranchDosage(r, 1, 3) = factual_chemo_dosage[1] + 4 * chemo_amt * DoseScale

\* ---------------------------------------------------------------------- C19
\* A branching generator has left the time loop of the current patient.
PatientFinished == pc # "step" /\ CurPatient >= 0

\* How the factual path of the current patient of a branching generator
\* ended: the number of iterations, the condition of lines 678-681 that held
\* and the last factual volume.
BranchingPathEnd ==
  LET volume == factual_cancer_volume[StepsDone]
  IN [ sequence_length |-> StepsDone,
       reason |-> IF FGeq(volume, tumour_death_threshold) THEN "death"
                  ELSE IF FLeq(recovery_rvs[StepsDone - 1], RecoveryProbability(volume))
                    THEN "recovery"
                  ELSE "horizon",
       volume |-> volume ]

\* C19: the factual path of a patient of a branching generator ends at the
\* step, for the reason and with the volume of the path simulate builds for
\* the same parameters, the same applications and the same noise and
\* recovery draws.
C19_FactualPathsAgree ==
  (Mode \in {"counterfactual", "sequence"} /\ PatientFinished) =>
    BranchingPathEnd =
      SimulatePath(Patient(CurPatient), simulation_params.initial_volumes[CurPatient], 0,
                   factual_chemo_application_point, factual_radio_application_point,
                   noise, recovery_rvs, 0)

\* ---------------------------------------------------------------------- C20
\* The condition of lines 678-681 and 944-947 on the factual volume that
\* decision time d has computed for d + 1.
AbsorbingAfter(d) ==
  \/ FGeq(factual_cancer_volume[d + 1], tumour_death_threshold)
  \/ FLeq(recovery_rvs[d], RecoveryProbability(factual_cancer_volume[d + 1]))

\* The rows from q on, up to test_idx, are rows of decision time d of
\* patient j: they start from the patient's initial volume and carry the
\* patient's type; simulate_counterfactual_test_data stores d + 1 as their
\* sequence length, simulate_sequence_test stores j and d themselves.
RowsBelongTo(q, j, d) ==
  \A r \in q .. test_idx - 1 :
    /\ cancer_volume[r][0] = simulation_params.initial_volumes[j]
    /\ patient_types_all_trajectories[r] = simulation_params.patient_types[j]
    /\ fn = "counterfactual" => sequence_lengths[r] = d + 1
    /\ fn = "sequence" =>
         patient_ids_all_trajectories[r] = j /\ patient_current_t[r] = d

\* The factual arrays as decision time d leaves them, and the action
\* sequences whose projection from them holds no NaN.
FactualLeftBy(d) ==
  [ previous_chemo_dose |-> IF d = 0 THEN 0 ELSE factual_chemo_dosage'[d - 1],
    cancer_volume |-> factual_cancer_volume',
    chemo_dosage |-> factual_chemo_dosage',
    radio_dosage |-> factual_radio_dosage',
    chemo_application_point |-> factual_chemo_application_point',
    radio_application_point |-> factual_radio_application_point' ]

KeptBy(j, d) ==
  {k \in 1 .. Len(treatment_options) :
     AllNumbers(Project(j, d, BranchStart(d, FactualLeftBy(d)), treatment_options[k],
                        0).cancer_volume)}

\* What a step of a branching generator does to the rows and to the loop.
BranchingStepEmitsThenEnds ==
  fn \in {"counterfactual", "sequence"} =>
       /\ fn' = fn => i' >= i
       /\ \A r \in 0 .. test_idx - 1 :
            /\ cancer_volume'[r] = cancer_volume[r]
            /\ sequence_lengths'[r] = sequence_lengths[r]
            /\ patient_types_all_trajectories'[r] = patient_types_all_trajectories[r]
            /\ fn = "sequence" =>
                 /\ patient_ids_all_trajectories'[r] = patient_ids_all_trajectories[r]
                 /\ patient_current_t'[r] = patient_current_t[r]
       /\ pc # "step" => test_idx' = test_idx
       /\ (pc = "step" /\ fn' = fn) =>
            \A q \in {test_idx} : \A j \in {i} : \A d \in {t} :
              /\ RowsBelongTo(q, j, d)'
              /\ fn = "counterfactual" => test_idx' = q + num_treatments
              /\ fn = "sequence" => test_idx' = q + Cardinality(KeptBy(j, d))
              /\ AbsorbingAfter(d)' => pc' = "patient" /\ i' = j + 1

\* C20: in a branching generator rows are written by the iterations of the
\* time loop only, each iteration that runs to its end writes the rows of its
\* own patient and decision time (simulate_counterfactual_test_data the
\* factual row and the three alternatives, simulate_sequence_test one row
\* per action sequence that is not skipped) whether or not the factual
\* volume it computed is absorbing, and written rows keep their patient and
\* decision time.  An iteration whose factual volume is absorbing is the
\* patient's last one: the loop goes on with the next patient, and the
\* patient counter never goes back.
C20_AbsorbingEndsPatientAfterRows == [][BranchingStepEmitsThenEnds]_vars

\* The first patient has left the time loop before the last time step, on an
\* absorbing factual volume, with the rows of that decision time written,
\* and the loop is at the second patient.
C20_Witness ==
  /\ fn = "counterfactual"
  /\ pc = "patient"
  /\ i = 1
  /\ StepsDone \in 2 .. NumTimeSteps - 2
  /\ AbsorbingAfter(StepsDone - 1)
  /\ test_idx = num_treatments * StepsDone
  /\ RowsBelongTo(test_idx - num_treatments, 0, StepsDone - 1)

\* ---------------------------------------------------------------------- C21
\* C21: the rows a branching generator writes fit the buffers allocated at
\* entry: test_idx stays within the number of rows and no write of a row
\* beyond the last one is attempted (which numpy answers with IndexError),
\* whatever the number of action sequences in treatment_options.
C21_RowsFitBuffer ==
  /\ Mode = "counterfactual" => test_idx <= CounterfactualNumTestPoints
  /\ Mode = "sequence" => test_idx <= SequenceNumTestPoints
  /\ ~(fn = "raised" /\ pc = "IndexError")

\* ---------------------------------------------------------------------- C22
\* C22: in simulate_sequence_test every index of noise read by a projection
\* is below the num_time_steps + 20 elements of noise, and every index of a
\* projected volume is below the num_time_steps + projection_horizon columns
\* of the output row, at every decision time and for every
\* projection_horizon.
C22_ProjectionIndicesInRange ==
  projection_pc # "idle" =>
    /\ noise_index < NoiseLength
    /\ volume_index < RowLength

=============================================================================
